---------------------------- MODULE Spec2Model ----------------------------
(***************************************************************************)
(* KeepHive backup daemon: the state manager (src/state), the scheduler    *)
(* and executor (src/scheduler), the backup orchestrator (src/core) and    *)
(* the daemon loop (src/service).                                          *)
(*                                                                         *)
(* Spec      the daemon: startup, ticks, hot-reloads, job tasks, shutdown. *)
(*           Handlers of the main loop are one action each; a job task     *)
(*           takes one action per suspension point of execute_job.         *)
(* SpecSM    the state manager: tasks calling update_job_state and save,   *)
(*           one action per suspension point, with I/O errors and a crash. *)
(* SpecInit  initialize_jobs called on job lists of every shape.           *)
(* SpecBackup  one run of execute_job through execute_backup (src/core),   *)
(*           with the target directory, cancellation, abort, a crash and   *)
(*           the retention cleanup.                                        *)
(* SpecStartup  the startup sequence over the state files a previous run   *)
(*           can have left.                                                *)
(* SpecWatcher  the configuration watcher (src/state/watcher.rs) and the   *)
(*           bounded channel to the daemon.                                *)
(* SpecCalc  calculate_next_runs step by step beside the job tasks.        *)
(* SpecSanitize, SpecDaily, SpecReady, SpecDetect  sanitize_backup_name,   *)
(*           the Daily arm of next_run_duration, get_ready_jobs and        *)
(*           detect_config_changes on their arguments.                     *)
(* SpecDue   a hot-reload between the instant a run falls due and the tick *)
(*           that starts it, with Interval, Daily and Weekly schedules.    *)
(* SpecAbort  the calls of SpecSM beside initialize_jobs, with job tasks   *)
(*           that are aborted inside update_job_state.                     *)
(* SpecLocks  the save mutex and the RwLock of the document under every    *)
(*           combination of concurrent calls.                              *)
(* SpecShared  two jobs that share a target directory and run side by      *)
(*           side.                                                         *)
(***************************************************************************)
EXTENDS Integers, Sequences, FiniteSets, TLC

(***************************************************************************)
(* Bounds of the model                                                     *)
(***************************************************************************)
\* ticks of the 5-second timer in one run (the clock counts ticks)
MaxTime == 2
\* tasks spawned in one run
MaxSpawns == 3
\* configuration changes received in one run
MaxReloads == 1
\* one-second polls of shutdown_gracefully before it force-cancels; stands
\* for the 300 of daemon.rs:417
GracePolls == 1
\* I/O errors the file system returns in one run
MaxFailures == 1

(***************************************************************************)
(* Option<T>: None is the empty sequence, Some(x) the one-element one      *)
(***************************************************************************)
None == <<>>
Some(x) == <<x>>
IsSome(o) == Len(o) > 0
Unwrap(o) == o[1]

(***************************************************************************)
(* state/models.rs                                                         *)
(***************************************************************************)
STATE_SCHEMA_VERSION == 1

Idle == [type |-> "idle"]
Running(t) == [type |-> "running", started_at |-> t]
Failed(e, t) == [type |-> "failed", error |-> e, timestamp |-> t]

\* JobState::new
JobStateNew(id, source, target) ==
  [id |-> id, source |-> source, target |-> target, status |-> Idle,
   last_run |-> None, next_run |-> None,
   last_backup |-> None, active_backup |-> None]

\* BackupMetadata after mark_complete (the counters are not modelled)
CompleteMetadata(name, t) ==
  [backup_name |-> name, completed_at |-> Some(t), is_complete |-> TRUE]

\* BackupState::new
BackupStateNew(t) ==
  [version |-> STATE_SCHEMA_VERSION, jobs |-> <<>>, last_updated |-> t]

\* position of the first record with this id, 0 when there is none
\* (jobs.iter().find(|j| j.id == id))
JobIndex(doc, id) ==
  IF \E i \in 1..Len(doc.jobs) : doc.jobs[i].id = id
  THEN CHOOSE i \in 1..Len(doc.jobs) :
         /\ doc.jobs[i].id = id
         /\ \A k \in 1..(i-1) : doc.jobs[k].id # id
  ELSE 0

\* BackupState::get_job
get_job(doc, id) ==
  IF JobIndex(doc, id) = 0 THEN None ELSE Some(doc.jobs[JobIndex(doc, id)])

\* BackupState::upsert_job
upsert_job(doc, job, t) ==
  [doc EXCEPT
     !.jobs = IF JobIndex(doc, job.id) # 0
              THEN [doc.jobs EXCEPT ![JobIndex(doc, job.id)] = job]
              ELSE Append(doc.jobs, job),
     !.last_updated = t]

UniqueIds(doc) ==
  \A i, k \in 1..Len(doc.jobs) : doc.jobs[i].id = doc.jobs[k].id => i = k

(***************************************************************************)
(* The closures handed to update_job_state, as records                     *)
(***************************************************************************)
\* executor.rs:59-65
UpdRunning(job, t) == [kind |-> "running", source |-> job.source,
                       target |-> job.target, at |-> t]
\* executor.rs:78-83
UpdSuccess(meta, t) == [kind |-> "success", meta |-> meta, at |-> t]
\* executor.rs:105-111
UpdFailed(e, t) == [kind |-> "failed", error |-> e, at |-> t]
\* engine.rs:37-40
UpdNextRun(t) == [kind |-> "next_run", next_run |-> t]
\* daemon.rs:146-148
UpdResetIdle == [kind |-> "reset_idle"]
\* daemon.rs:340-347 and 370-377
UpdFailedPaths(e, job, t) == [kind |-> "failed_paths", error |-> e,
                              source |-> job.source, target |-> job.target,
                              at |-> t]
\* daemon.rs:351-354 and 381-384
UpdPaths(job) == [kind |-> "paths", source |-> job.source,
                  target |-> job.target]

ApplyUpdater(js, u) ==
  CASE u.kind = "running" ->
         [js EXCEPT !.status = Running(u.at), !.source = u.source,
                    !.target = u.target]
    [] u.kind = "success" ->
         [js EXCEPT !.status = Idle, !.last_run = Some(u.at),
                    !.last_backup = Some(u.meta), !.active_backup = None]
    [] u.kind = "failed" ->
         [js EXCEPT !.status = Failed(u.error, u.at), !.active_backup = None]
    [] u.kind = "next_run" ->
         [js EXCEPT !.next_run = Some(u.next_run)]
    [] u.kind = "reset_idle" ->
         [js EXCEPT !.status = Idle]
    [] u.kind = "failed_paths" ->
         [js EXCEPT !.status = Failed(u.error, u.at), !.source = u.source,
                    !.target = u.target]
    [] u.kind = "paths" ->
         [js EXCEPT !.source = u.source, !.target = u.target]

(***************************************************************************)
(* The files of the state manager                                          *)
(***************************************************************************)
Path(stem, ext) == [stem |-> stem, ext |-> ext]
\* Path::with_extension
with_extension(p, ext) == [p EXCEPT !.ext = ext]
\* the state_path of the configuration (config/models.rs:9, without its dot)
DEFAULT_STATE_FILE == Path("keephive_state", "json")

FileNames == {Path("keephive_state", e) : e \in {"json", "tmp"}}

Absent == [kind |-> "absent"]
\* a file that was created or truncated and not yet written to its end
Partial == [kind |-> "partial"]
\* serde_json::to_string_pretty of a document
to_json(doc) == [kind |-> "json", doc |-> doc]
\* serde_json::from_str: an error for anything but a complete document
ParsesOk(content) == content.kind = "json"
from_json(content) == content.doc

NoFiles == [p \in FileNames |-> Absent]

\* fs::rename(from, to): replaces the destination; a rename of a file to
\* itself does nothing
RenameFile(fs, from, to) ==
  IF from = to THEN fs
  ELSE [fs EXCEPT ![to] = fs[from], ![from] = Absent]

\* StateManager::save_state_atomic when no step of it fails
SaveStateAtomic(fs, path, doc) ==
  LET temp_path == with_extension(path, "tmp")
      written == [fs EXCEPT ![temp_path] = to_json(doc)]
  IN RenameFile(written, temp_path, path)

\* the write-locked block of update_job_state with the snapshot taken before
\* the updater runs
SnapshotThenMutate(doc, id, u, t) ==
  LET i == JobIndex(doc, id) IN
  IF i = 0 THEN [found |-> FALSE, state |-> doc, snapshot |-> doc]
  ELSE [found |-> TRUE,
        state |-> [doc EXCEPT !.jobs[i] = ApplyUpdater(@, u), !.last_updated = t],
        snapshot |-> doc]

\* a write-locked block that stamps last_updated before it looks for the
\* record
MutateStampsFirst(doc, id, u, t) ==
  LET i == JobIndex(doc, id)
      stamped == [doc EXCEPT !.last_updated = t] IN
  IF i = 0 THEN [found |-> FALSE, state |-> stamped, snapshot |-> stamped]
  ELSE LET d == [stamped EXCEPT !.jobs[i] = ApplyUpdater(@, u)]
       IN [found |-> TRUE, state |-> d, snapshot |-> d]

\* manager.rs:112-123: the write-locked block of update_job_state, which
\* holds no await: the updater runs on the record, last_updated is set and
\* the document is cloned
MutateAndSnapshot(doc, id, u, t) ==
  LET i == JobIndex(doc, id) IN
  IF i = 0 THEN [found |-> FALSE, state |-> doc, snapshot |-> doc]
  ELSE LET d == [doc EXCEPT !.jobs[i] = ApplyUpdater(@, u), !.last_updated = t]
       IN [found |-> TRUE, state |-> d, snapshot |-> d]

\* StateManager::update_job_state run to its end with no other task in
\* between: sm is [state, files]
UpdateJobState(sm, path, id, u, t) ==
  LET r == MutateAndSnapshot(sm.state, id, u, t) IN
  IF ~r.found THEN sm
  ELSE [state |-> r.state, files |-> SaveStateAtomic(sm.files, path, r.snapshot)]

\* the steps of save_state_atomic that return an error to the caller
FailSteps == {"write", "rename"}

\* StateManager::save_state_atomic when a step of it fails: the write of the
\* temporary file leaves the files as they are, the rename leaves the
\* temporary file behind
SaveStateAtomicFails(fs, path, doc, step) ==
  IF step = "write" THEN fs
  ELSE [fs EXCEPT ![with_extension(path, "tmp")] = to_json(doc)]

\* StateManager::save run to its end
SaveState(sm, path) ==
  [sm EXCEPT !.files = SaveStateAtomic(sm.files, path, sm.state)]


(***************************************************************************)
(* config/models.rs: the jobs of a configuration                           *)
(***************************************************************************)
JobIds == {"a", "b"}

\* Schedule::Interval; the unit of time is one tick of the main loop
Interval(seconds) == [type |-> "interval", seconds |-> seconds]

\* BackupJob (its description takes no part in any decision)
BackupJob(id, source, target, schedule) ==
  [id |-> id, source |-> source, target |-> target, schedule |-> schedule]

\* Schedule::next_run_duration, Interval arm
next_run_duration(schedule, last_run, t) ==
  IF IsSome(last_run)
  THEN LET elapsed == t - Unwrap(last_run) IN
       IF elapsed >= schedule.seconds THEN 0 ELSE schedule.seconds - elapsed
  ELSE 0

(***************************************************************************)
(* scheduler/engine.rs                                                     *)
(***************************************************************************)
\* one turn of the loop of Scheduler::calculate_next_runs
CalculateNextRun(sm, path, job, t) ==
  LET job_state == get_job(sm.state, job.id)
      last_run == IF IsSome(job_state) THEN Unwrap(job_state).last_run ELSE None
      is_running == IsSome(job_state) /\ Unwrap(job_state).status.type = "running"
  IN IF is_running THEN sm
     ELSE UpdateJobState(sm, path, job.id,
            UpdNextRun(t + next_run_duration(job.schedule, last_run, t)), t)

RECURSIVE calculate_next_runs(_, _, _, _)
\* Scheduler::calculate_next_runs
calculate_next_runs(sm, path, jobs, t) ==
  IF jobs = <<>> THEN sm
  ELSE calculate_next_runs(CalculateNextRun(sm, path, Head(jobs), t),
                           path, Tail(jobs), t)

\* Scheduler::calculate_next_runs when the save of the update for the k-th
\* job fails at the given step: the updates before it went through, the
\* k-th changed the document in memory, and the ? returns the error
calculate_next_runs_fails(sm, path, jobs, t, k, step) ==
  LET sm0 == calculate_next_runs(sm, path, SubSeq(jobs, 1, k - 1), t)
      job == jobs[k]
      job_state == get_job(sm0.state, job.id)
      saves == IsSome(job_state) /\ Unwrap(job_state).status.type # "running"
      r == MutateAndSnapshot(sm0.state, job.id,
             UpdNextRun(t + next_run_duration(job.schedule,
                                              Unwrap(job_state).last_run, t)), t)
  IN IF saves
     THEN [saves |-> TRUE,
           sm |-> [state |-> r.state,
                   files |-> SaveStateAtomicFails(sm0.files, path, r.snapshot, step)]]
     ELSE [saves |-> FALSE, sm |-> sm0]

\* a test that lets every job through that is not running
IsReadyUnlessRunning(doc, job, t) ==
  LET job_state == get_job(doc, job.id) IN
  IF IsSome(job_state)
  THEN /\ Unwrap(job_state).status.type # "running"
       /\ (IsSome(Unwrap(job_state).next_run)
             => Unwrap(Unwrap(job_state).next_run) <= t)
  ELSE TRUE

\* the test of Scheduler::get_ready_jobs for one job
IsReady(doc, job, t) ==
  LET job_state == get_job(doc, job.id) IN
  IF IsSome(job_state)
  THEN /\ Unwrap(job_state).status.type = "idle"
       /\ (IsSome(Unwrap(job_state).next_run)
             => Unwrap(Unwrap(job_state).next_run) <= t)
  ELSE TRUE

\* a get_ready_jobs that returns the Failed jobs that are due as well
GetReadyJobsUnlessRunning(doc, jobs, t) ==
  SelectSeq(jobs, LAMBDA j : IsReadyUnlessRunning(doc, j, t))

\* Scheduler::get_ready_jobs
get_ready_jobs(doc, jobs, t) == SelectSeq(jobs, LAMBDA j : IsReady(doc, j, t))

\* Scheduler::validate_no_duplicate_job_ids: the (id, first position,
\* position) triples it reports, positions counted from 0; Ok when empty
validate_no_duplicate_job_ids(jobs) ==
  LET first(i) == CHOOSE k \in 1..i : jobs[k].id = jobs[i].id
                     /\ \A m \in 1..(k-1) : jobs[m].id # jobs[i].id
      dupAt == {i \in 1..Len(jobs) : first(i) # i}
      RECURSIVE report(_)
      report(i) == IF i > Len(jobs) THEN <<>>
                   ELSE IF i \in dupAt
                        THEN <<[id |-> jobs[i].id, first |-> first(i) - 1,
                                dup |-> i - 1]>> \o report(i + 1)
                        ELSE report(i + 1)
  IN report(1)

RECURSIVE InsertAllJobs(_, _, _)
\* the loop of initialize_jobs without its get_job test: every job of the
\* list is pushed
InsertAllJobs(doc, jobs, t) ==
  IF jobs = <<>> THEN doc
  ELSE LET job == Head(jobs)
       IN InsertAllJobs([doc EXCEPT
                           !.jobs = Append(@, JobStateNew(job.id, job.source, job.target)),
                           !.last_updated = t],
                        Tail(jobs), t)

RECURSIVE InsertNewJobs(_, _, _)
\* the loop of Scheduler::initialize_jobs
InsertNewJobs(doc, jobs, t) ==
  IF jobs = <<>> THEN doc
  ELSE LET job == Head(jobs)
           next == IF get_job(doc, job.id) = None
                   THEN upsert_job(doc, JobStateNew(job.id, job.source, job.target), t)
                   ELSE doc
       IN InsertNewJobs(next, Tail(jobs), t)

\* initialize_jobs with the validation made after the jobs were inserted
\* and saved
InitializeJobsValidatesLast(sm, path, jobs, t) ==
  [ok |-> validate_no_duplicate_job_ids(jobs) = <<>>,
   sm |-> SaveState([sm EXCEPT !.state = InsertNewJobs(sm.state, jobs, t)], path)]

\* Scheduler::initialize_jobs: [ok, sm]
initialize_jobs(sm, path, jobs, t) ==
  IF validate_no_duplicate_job_ids(jobs) # <<>>
  THEN [ok |-> FALSE, sm |-> sm]
  ELSE [ok |-> TRUE,
        sm |-> SaveState([sm EXCEPT !.state = InsertNewJobs(sm.state, jobs, t)],
                         path)]

HasId(jobs, id) == \E i \in 1..Len(jobs) : jobs[i].id = id
\* HashMap::get of the map collected from a job list: a later job with the
\* same id replaced the earlier one
MapGet(jobs, id) ==
  jobs[CHOOSE i \in 1..Len(jobs) :
         jobs[i].id = id /\ \A k \in (i+1)..Len(jobs) : jobs[k].id # id]

\* a comparison that takes a change of the target for no change of path
ChangeTypeBySourceOnly(job, old_job) ==
  LET schedule_changed == job.schedule # old_job.schedule
      path_changed == job.source # old_job.source
  IN CASE schedule_changed /\ path_changed -> "PathAndSchedule"
       [] ~schedule_changed /\ path_changed -> "PathChanged"
       [] schedule_changed /\ ~path_changed -> "ScheduleOnly"
       [] OTHER -> "Unchanged"

\* the (schedule_changed, path_changed) match of detect_config_changes
ChangeType(job, old_job) ==
  LET schedule_changed == job.schedule # old_job.schedule
      path_changed == job.source # old_job.source \/ job.target # old_job.target
  IN CASE schedule_changed /\ path_changed -> "PathAndSchedule"
       [] ~schedule_changed /\ path_changed -> "PathChanged"
       [] schedule_changed /\ ~path_changed -> "ScheduleOnly"
       [] OTHER -> "Unchanged"

\* Scheduler::detect_config_changes
detect_config_changes(old_jobs, new_jobs) ==
  LET gone == SelectSeq(old_jobs, LAMBDA j : ~HasId(new_jobs, j.id))
      changed == SelectSeq(new_jobs,
                   LAMBDA j : /\ HasId(old_jobs, j.id)
                              /\ ChangeType(j, MapGet(old_jobs, j.id)) # "Unchanged")
  IN [added |-> SelectSeq(new_jobs, LAMBDA j : ~HasId(old_jobs, j.id)),
      removed |-> [i \in 1..Len(gone) |-> gone[i].id],
      modified |-> [i \in 1..Len(changed) |->
                      [job |-> changed[i],
                       change_type |-> ChangeType(changed[i],
                                                  MapGet(old_jobs, changed[i].id))]]]

(***************************************************************************)
(* State of the program                                                    *)
(***************************************************************************)
VARIABLES
  state,             \* StateManager.state: the document in memory
  files,             \* the state file and its temporary, by path
  state_path,        \* StateManager.state_path
  now,               \* the clock, in ticks
  config,            \* ServiceDaemon.config.jobs
  running_jobs,      \* the running_jobs map of run(): job id -> task
  tasks,             \* every task spawned for a job, in order of spawning,
                     \* with its child cancellation token
  root_cancelled,    \* ServiceDaemon.cancellation
  dpc,               \* where run() is: init, running, shutting, stopped, failed
  polls,             \* one-second sleeps shutdown_gracefully has taken
  reloads,           \* configuration changes handled
  loop_since_cancel, \* the main loop went round since the root was cancelled
  last_reload,       \* what the handler of the step just taken was given
  callers,           \* the tasks calling the state manager, each with its
                     \* place in update_job_state or save
  save_mutex,        \* StateManager.save_mutex: its holder, 0 when free
  failures,          \* I/O errors the file system has returned
  crashed,           \* the process was killed
  init_call,         \* the last call of initialize_jobs made on its own:
                     \* its job list, its result and its number
  target_dir,        \* the entries of a job's target directory, in the
                     \* order read_dir lists them
  job_run,           \* one run of execute_job followed through
                     \* execute_backup: its place, token and results
  retention_count,   \* JobExecutor.retention_count
  loaded,            \* the document StateManager::new loaded from the state
                     \* file, where the startup sequence is followed
  watcher,           \* the ConfigWatcher, its channel to the daemon and
                     \* the receiving end
  pure_call          \* one call of a function of the program: its
                     \* arguments and its result

smVars == <<state, files, state_path>>
daemonVars == <<now, config, running_jobs, tasks, root_cancelled, dpc, polls,
                reloads, loop_since_cancel, last_reload>>
\* the state of the callers of the state manager taken one step at a time
callVars == <<callers, save_mutex, failures, crashed, init_call>>
\* one backup run and the directory it writes to
backupVars == <<target_dir, job_run, retention_count>>
\* the document StateManager::new loaded, the watcher with its channel, and
\* one call of a function of the program with its result
extraVars == <<loaded, watcher, pure_call>>
vars == <<state, files, state_path, now, config, running_jobs, tasks,
          root_cancelled, dpc, polls, reloads, loop_since_cancel, last_reload,
          callers, save_mutex, failures, crashed, init_call,
          target_dir, job_run, retention_count, loaded, watcher, pure_call>>

(***************************************************************************)
(* Inputs: the configurations the watcher can deliver                      *)
(***************************************************************************)
\* longest job list of a delivered configuration
MaxConfigJobs == 2

BaseJob(id) == BackupJob(id, "src_" \o id, "tgt_" \o id, Interval(1))
\* job "a" as configured at startup, or with another schedule, source, or
\* target and schedule
JobVariants(id) ==
  {BaseJob(id),
   [BaseJob(id) EXCEPT !.schedule = Interval(2)],
   [BaseJob(id) EXCEPT !.source = "src_x"],
   [BaseJob(id) EXCEPT !.target = "tgt_x", !.schedule = Interval(2)]}
\* the jobs a delivered configuration is made of: every variant of "a",
\* and "b" as it was
JobPool == JobVariants("a") \cup {BaseJob("b")}
\* every job list up to MaxConfigJobs long: repeated ids, removals and
\* reorderings included
NewConfigs == UNION {[1..n -> JobPool] : n \in 0..MaxConfigJobs}

InitialConfig == <<BaseJob("a"), BaseJob("b")>>

\* the documents a previous run can have left in the state file
PriorDocs ==
  {[version |-> STATE_SCHEMA_VERSION, last_updated |-> 0,
    jobs |-> <<[JobStateNew("a", "src_a", "tgt_a") EXCEPT
                  !.status = Failed("copy failed", 0)]>>]}

NoReload == [kind |-> "none"]
NoCall == [n |-> 0, jobs |-> << >>, ok |-> TRUE]
\* no backup run is followed
NoRun == [pc |-> "none"]
\* no watcher is followed, no function is called
NoWatcher == [pc |-> "none"]
NoPure == [fn |-> "none"]

(***************************************************************************)
(* service/daemon.rs                                                       *)
(***************************************************************************)
\* a task whose token is a fresh CancellationToken::new(), no child of the
\* root
NewTaskDetached(job, cancelled) ==
  [job |-> job, pc |-> "spawned", cancelled |-> FALSE, outcome |-> None]

\* what tokio::spawn returns for execute_job(job, child token)
NewTask(job, cancelled) ==
  [job |-> job, pc |-> "spawned", cancelled |-> cancelled, outcome |-> None]

\* JoinHandle::is_finished
IsFinished(task) == task.pc \in {"finished", "aborted", "dropped"}

\* token.cancel(); handle.abort(): the task is parked at a suspension point
\* and is dropped there; a task that has returned keeps its result
CancelAndAbort(ts, tid) ==
  [ts EXCEPT ![tid].cancelled = TRUE,
             ![tid].pc = IF IsFinished(ts[tid]) THEN @ ELSE "aborted"]

\* the runtime is torn down when run() returns: every task still running
\* is dropped where it is
DropTasks(ts) ==
  [i \in 1..Len(ts) |->
     IF IsFinished(ts[i]) THEN ts[i] ELSE [ts[i] EXCEPT !.pc = "dropped"]]

Without(map, id) == [k \in DOMAIN map \ {id} |-> map[k]]
With(map, id, v) == [k \in DOMAIN map \cup {id} |-> IF k = id THEN v ELSE map[k]]

\* a reset that takes only the first failed job
ResetFirstFailedOnly(sm, path, t) ==
  LET failed_jobs == SelectSeq(sm.state.jobs, LAMBDA j : j.status.type = "failed")
  IN IF failed_jobs = <<>> THEN sm
     ELSE UpdateJobState(sm, path, failed_jobs[1].id, UpdResetIdle, t)

\* ServiceDaemon::reset_failed_jobs
RECURSIVE ResetJobs(_, _, _, _)
ResetJobs(sm, path, ids, t) ==
  IF ids = <<>> THEN sm
  ELSE ResetJobs(UpdateJobState(sm, path, Head(ids), UpdResetIdle, t),
                 path, Tail(ids), t)

reset_failed_jobs(sm, path, t) ==
  LET failed == SelectSeq(sm.state.jobs, LAMBDA j : j.status.type = "failed")
  IN ResetJobs(sm, path, [i \in 1..Len(failed) |-> failed[i].id], t)

\* w is [sm, running_jobs, tasks]: what a handler of the main loop works on

\* the removal of one id done on the tokens of every running job
CancelRemovedCancelsAll(w, id) ==
  IF id \in DOMAIN w.running_jobs
  THEN [w EXCEPT !.running_jobs = Without(@, id),
                 !.tasks = [i \in 1..Len(w.tasks) |->
                              IF i = w.running_jobs[id]
                              THEN CancelAndAbort(w.tasks, i)[i]
                              ELSE IF \E k \in DOMAIN w.running_jobs : w.running_jobs[k] = i
                                   THEN [w.tasks[i] EXCEPT !.cancelled = TRUE]
                                   ELSE w.tasks[i]]]
  ELSE w

\* daemon.rs:297-305, one removed id
CancelRemoved(w, id) ==
  IF id \in DOMAIN w.running_jobs
  THEN [w EXCEPT !.running_jobs = Without(@, id),
                 !.tasks = CancelAndAbort(@, w.running_jobs[id])]
  ELSE w

RECURSIVE CancelRemovedAll(_, _)
CancelRemovedAll(w, ids) ==
  IF ids = <<>> THEN w
  ELSE CancelRemovedAll(CancelRemoved(w, Head(ids)), Tail(ids))

\* the handling of one modified job with every change type treated as a
\* change of path
ApplyModifiedAlwaysCancels(w, path, m, t) ==
  LET job_id == m.job.id
  IN IF job_id \in DOMAIN w.running_jobs
     THEN [running_jobs |-> Without(w.running_jobs, job_id),
           tasks |-> CancelAndAbort(w.tasks, w.running_jobs[job_id]),
           sm |-> UpdateJobState(w.sm, path, job_id,
                    UpdFailedPaths("Backup cancelled due to configuration change",
                                   m.job, t), t)]
     ELSE [w EXCEPT !.sm = UpdateJobState(@, path, job_id, UpdPaths(m.job), t)]

\* daemon.rs:310-388, one modified job
ApplyModified(w, path, m, t) ==
  LET job_id == m.job.id
      is_running == job_id \in DOMAIN w.running_jobs
  IN CASE m.change_type = "ScheduleOnly" -> w
       [] m.change_type = "PathChanged" ->
            IF is_running
            THEN [running_jobs |-> Without(w.running_jobs, job_id),
                  tasks |-> CancelAndAbort(w.tasks, w.running_jobs[job_id]),
                  sm |-> UpdateJobState(w.sm, path, job_id,
                           UpdFailedPaths("Backup cancelled due to source/target path change",
                                          m.job, t), t)]
            ELSE [w EXCEPT !.sm = UpdateJobState(@, path, job_id, UpdPaths(m.job), t)]
       [] m.change_type = "PathAndSchedule" ->
            IF is_running
            THEN [running_jobs |-> Without(w.running_jobs, job_id),
                  tasks |-> CancelAndAbort(w.tasks, w.running_jobs[job_id]),
                  sm |-> UpdateJobState(w.sm, path, job_id,
                           UpdFailedPaths("Backup cancelled due to configuration change",
                                          m.job, t), t)]
            ELSE [w EXCEPT !.sm = UpdateJobState(@, path, job_id, UpdPaths(m.job), t)]

RECURSIVE ApplyModifiedAll(_, _, _, _)
ApplyModifiedAll(w, path, ms, t) ==
  IF ms = <<>> THEN w
  ELSE ApplyModifiedAll(ApplyModified(w, path, Head(ms), t), path, Tail(ms), t)

\* the start of a ready job without the contains_key test
StartJobUnchecked(w, job, root) ==
  [w EXCEPT !.tasks = Append(@, NewTask(job, root)),
            !.running_jobs = With(@, job.id, Len(w.tasks) + 1)]

\* daemon.rs:188-203: start a task for every ready job not in the table
StartJob(w, job, root) ==
  IF job.id \notin DOMAIN w.running_jobs
  THEN [w EXCEPT !.tasks = Append(@, NewTask(job, root)),
                 !.running_jobs = With(@, job.id, Len(w.tasks) + 1)]
  ELSE w

RECURSIVE StartJobs(_, _, _)
StartJobs(w, ready, root) ==
  IF ready = <<>> THEN w
  ELSE StartJobs(StartJob(w, Head(ready), root), Tail(ready), root)

\* a process_jobs that takes the ready set before it recomputes the next
\* runs of the completed jobs
ProcessJobsReadyFirst(w, path, jobs, root, t) ==
  LET completed == {id \in DOMAIN w.running_jobs :
                      IsFinished(w.tasks[w.running_jobs[id]])}
      kept == [id \in DOMAIN w.running_jobs \ completed |-> w.running_jobs[id]]
      ready == get_ready_jobs(w.sm.state, jobs, t)
      sm1 == calculate_next_runs(w.sm, path,
               SelectSeq(jobs, LAMBDA j : j.id \in completed), t)
  IN StartJobs([sm |-> sm1, running_jobs |-> kept, tasks |-> w.tasks],
               ready, root)

\* ServiceDaemon::process_jobs
process_jobs(w, path, jobs, root, t) ==
  LET completed == {id \in DOMAIN w.running_jobs :
                      IsFinished(w.tasks[w.running_jobs[id]])}
      kept == [id \in DOMAIN w.running_jobs \ completed |-> w.running_jobs[id]]
      sm1 == calculate_next_runs(w.sm, path,
               SelectSeq(jobs, LAMBDA j : j.id \in completed), t)
      ready == get_ready_jobs(sm1.state, jobs, t)
  IN StartJobs([sm |-> sm1, running_jobs |-> kept, tasks |-> w.tasks],
               ready, root)

World == [sm |-> [state |-> state, files |-> files],
          running_jobs |-> running_jobs, tasks |-> tasks]

(***************************************************************************)
(* The daemon: ServiceDaemon::new, then run()                              *)
(***************************************************************************)
\* StateManager::new loads the state file when there is one
Init ==
  /\ state_path = DEFAULT_STATE_FILE
  /\ \/ /\ files = NoFiles
        /\ state = BackupStateNew(0)
     \/ \E doc \in PriorDocs :
          /\ files = [NoFiles EXCEPT ![DEFAULT_STATE_FILE] = to_json(doc)]
          /\ state = from_json(to_json(doc))
  /\ loaded = None
  /\ now = 0
  /\ config = InitialConfig
  /\ running_jobs = << >>
  /\ tasks = << >>
  /\ root_cancelled = FALSE
  /\ dpc = "init"
  /\ polls = 0
  /\ reloads = 0
  /\ loop_since_cancel = FALSE
  /\ last_reload = NoReload
  /\ callers = << >>
  /\ save_mutex = 0
  /\ failures = 0
  /\ crashed = FALSE
  /\ init_call = NoCall
  /\ target_dir = << >>
  /\ job_run = NoRun
  /\ retention_count = 0
  /\ watcher = NoWatcher
  /\ pure_call = NoPure

\* daemon.rs:80-93: initialize_jobs, reset_failed_jobs, calculate_next_runs
\* (recover_partial_backups only logs)
Startup ==
  /\ dpc = "init"
  /\ LET r == initialize_jobs([state |-> state, files |-> files], state_path,
                              config, now)
         sm == calculate_next_runs(reset_failed_jobs(r.sm, state_path, now),
                                   state_path, config, now)
     IN IF r.ok
        THEN /\ state' = sm.state
             /\ files' = sm.files
             /\ dpc' = "running"
        ELSE /\ state' = r.sm.state
             /\ files' = r.sm.files
             /\ dpc' = "failed"
  /\ last_reload' = NoReload
  /\ UNCHANGED <<state_path, now, config, running_jobs, tasks, root_cancelled,
                 polls, reloads, loop_since_cancel>>
  /\ UNCHANGED <<callVars, backupVars, extraVars>>

\* signals.rs: the shutdown signal cancels the root token, and with it every
\* child token there is
Signal ==
  /\ dpc \in {"init", "running"}
  /\ ~root_cancelled
  /\ root_cancelled' = TRUE
  /\ tasks' = [i \in 1..Len(tasks) |->
                 IF IsFinished(tasks[i]) /\ (\A id \in DOMAIN running_jobs :
                                               running_jobs[id] # i)
                 THEN tasks[i] ELSE [tasks[i] EXCEPT !.cancelled = TRUE]]
  /\ loop_since_cancel' = FALSE
  /\ last_reload' = NoReload
  /\ UNCHANGED <<state, files, state_path, now, config, running_jobs, dpc,
                 polls, reloads>>
  /\ UNCHANGED <<callVars, backupVars, extraVars>>

\* daemon.rs:125-127: the 5-second sleep ends and process_jobs runs.  Once
\* the root is cancelled the sleep can only have ended together with it: a
\* later turn of the loop starts a fresh sleep beside a branch that is ready.
Tick ==
  /\ dpc = "running"
  /\ now < MaxTime
  /\ ~(root_cancelled /\ loop_since_cancel)
  /\ LET w == process_jobs(World, state_path, config, root_cancelled, now + 1)
     IN /\ Len(w.tasks) <= MaxSpawns
        /\ state' = w.sm.state
        /\ files' = w.sm.files
        /\ running_jobs' = w.running_jobs
        /\ tasks' = w.tasks
  /\ now' = now + 1
  /\ loop_since_cancel' = root_cancelled
  /\ last_reload' = NoReload
  /\ UNCHANGED <<state_path, config, root_cancelled, dpc, polls, reloads>>
  /\ UNCHANGED <<callVars, backupVars, extraVars>>

\* daemon.rs:126 and 172-183: a save fails while process_jobs recalculates
\* the next run of a completed job; the error leaves process_jobs and run()
\* through the ? operators, and the runtime is torn down
TickSaveFails ==
  /\ dpc = "running"
  /\ now < MaxTime
  /\ ~(root_cancelled /\ loop_since_cancel)
  /\ failures < MaxFailures
  /\ LET completed == {id \in DOMAIN running_jobs :
                         IsFinished(tasks[running_jobs[id]])}
         kept == [id \in DOMAIN running_jobs \ completed |-> running_jobs[id]]
         cjobs == SelectSeq(config, LAMBDA j : j.id \in completed)
     IN \E k \in 1..Len(cjobs), step \in FailSteps :
          LET r == calculate_next_runs_fails([state |-> state, files |-> files],
                                             state_path, cjobs, now + 1, k, step)
          IN /\ r.saves
             /\ state' = r.sm.state
             /\ files' = r.sm.files
             /\ running_jobs' = kept
  /\ tasks' = DropTasks(tasks)
  /\ failures' = failures + 1
  /\ dpc' = "failed"
  /\ now' = now + 1
  /\ loop_since_cancel' = root_cancelled
  /\ last_reload' = NoReload
  /\ UNCHANGED <<state_path, config, root_cancelled, polls, reloads>>
  /\ UNCHANGED <<callers, save_mutex, crashed, init_call, backupVars, extraVars>>

\* daemon.rs:119-122 and ServiceDaemon::handle_config_change; an error of
\* initialize_jobs leaves run() through the ? operators
HandleConfigChange(new_jobs) ==
  /\ dpc = "running"
  /\ reloads < MaxReloads
  /\ LET changes == detect_config_changes(config, new_jobs)
         w1 == CancelRemovedAll(World, changes.removed)
         w2 == ApplyModifiedAll(w1, state_path, changes.modified, now)
         r == initialize_jobs(w2.sm, state_path, new_jobs, now)
         sm == calculate_next_runs(r.sm, state_path, new_jobs, now)
     IN /\ config' = new_jobs
        /\ running_jobs' = w2.running_jobs
        /\ IF r.ok
           THEN /\ state' = sm.state
                /\ files' = sm.files
                /\ tasks' = w2.tasks
                /\ dpc' = "running"
           ELSE /\ state' = r.sm.state
                /\ files' = r.sm.files
                /\ tasks' = DropTasks(w2.tasks)
                /\ dpc' = "failed"
        /\ last_reload' = [kind |-> IF r.ok THEN "applied" ELSE "rejected",
                           old |-> config, new |-> new_jobs,
                           was_running |-> DOMAIN running_jobs]
  /\ reloads' = reloads + 1
  /\ loop_since_cancel' = root_cancelled
  /\ UNCHANGED <<state_path, now, root_cancelled, polls>>
  /\ UNCHANGED <<callVars, backupVars, extraVars>>

\* daemon.rs:121 and 396-399: a save fails while handle_config_change
\* recalculates the next runs for the new job list; the error leaves the
\* handler and run() through the ? operators
ReloadSaveFails(new_jobs) ==
  /\ dpc = "running"
  /\ reloads < MaxReloads
  /\ failures < MaxFailures
  /\ LET changes == detect_config_changes(config, new_jobs)
         w1 == CancelRemovedAll(World, changes.removed)
         w2 == ApplyModifiedAll(w1, state_path, changes.modified, now)
         i == initialize_jobs(w2.sm, state_path, new_jobs, now)
     IN /\ i.ok
        /\ \E k \in 1..Len(new_jobs), step \in FailSteps :
             LET r == calculate_next_runs_fails(i.sm, state_path, new_jobs,
                                                now, k, step)
             IN /\ r.saves
                /\ state' = r.sm.state
                /\ files' = r.sm.files
        /\ config' = new_jobs
        /\ running_jobs' = w2.running_jobs
        /\ tasks' = DropTasks(w2.tasks)
        /\ last_reload' = [kind |-> "failed", old |-> config, new |-> new_jobs,
                           was_running |-> DOMAIN running_jobs]
  /\ failures' = failures + 1
  /\ dpc' = "failed"
  /\ reloads' = reloads + 1
  /\ loop_since_cancel' = root_cancelled
  /\ UNCHANGED <<state_path, now, root_cancelled, polls>>
  /\ UNCHANGED <<callers, save_mutex, crashed, init_call, backupVars, extraVars>>

\* daemon.rs:112-116: the shutdown branch of the select
ShutdownBegin ==
  /\ dpc = "running"
  /\ root_cancelled
  /\ dpc' = "shutting"
  /\ polls' = 0
  /\ last_reload' = NoReload
  /\ UNCHANGED <<state, files, state_path, now, config, running_jobs, tasks,
                 root_cancelled, reloads, loop_since_cancel>>
  /\ UNCHANGED <<callVars, backupVars, extraVars>>

\* daemon.rs:420-433: one turn of the wait loop of shutdown_gracefully
ShutdownPoll ==
  /\ dpc = "shutting"
  /\ running_jobs # << >>
  /\ polls < GracePolls
  /\ LET kept == [id \in {k \in DOMAIN running_jobs :
                            ~IsFinished(tasks[running_jobs[k]])} |->
                    running_jobs[id]]
     IN /\ running_jobs' = kept
        /\ polls' = IF kept # << >> THEN polls + 1 ELSE polls
  /\ last_reload' = NoReload
  /\ UNCHANGED <<state, files, state_path, now, config, tasks, root_cancelled,
                 dpc, reloads, loop_since_cancel>>
  /\ UNCHANGED <<callVars, backupVars, extraVars>>

RECURSIVE ForceCancel(_, _)
\* daemon.rs:436-444
ForceCancel(ts, tids) ==
  IF tids = {} THEN ts
  ELSE LET tid == CHOOSE x \in tids : TRUE
       IN ForceCancel(CancelAndAbort(ts, tid), tids \ {tid})

\* daemon.rs:435-453: force-cancel what is left, save, return from run()
ShutdownFinish ==
  /\ dpc = "shutting"
  /\ running_jobs = << >> \/ polls >= GracePolls
  /\ tasks' = DropTasks(ForceCancel(tasks, {running_jobs[id] : id \in DOMAIN running_jobs}))
  /\ running_jobs' = << >>
  /\ files' = SaveState([state |-> state, files |-> files], state_path).files
  /\ dpc' = "stopped"
  /\ last_reload' = NoReload
  /\ UNCHANGED <<state, state_path, now, config, root_cancelled, polls,
                 reloads, loop_since_cancel>>
  /\ UNCHANGED <<callVars, backupVars, extraVars>>

(***************************************************************************)
(* scheduler/executor.rs: a task running execute_job                       *)
(***************************************************************************)
TaskAt(tid, pc) ==
  /\ dpc \in {"running", "shutting"}
  /\ tid \in 1..Len(tasks)
  /\ tasks[tid].pc = pc

TaskFrame == /\ last_reload' = NoReload
             /\ UNCHANGED <<callVars, backupVars, extraVars>>
             /\ UNCHANGED <<state_path, now, config, running_jobs,
                            root_cancelled, dpc, polls, reloads,
                            loop_since_cancel>>

\* executor.rs:58-65, then execute_backup up to its select (backup.rs:32-55)
TaskBegin(tid) ==
  /\ TaskAt(tid, "spawned")
  /\ LET job == tasks[tid].job
         sm == UpdateJobState([state |-> state, files |-> files], state_path,
                              job.id, UpdRunning(job, now), now)
     IN /\ state' = sm.state
        /\ files' = sm.files
  /\ tasks' = [tasks EXCEPT ![tid].pc = "copying"]
  /\ TaskFrame

\* backup.rs:59 and 67-72: the copy future ends well
TaskCopyOk(tid) ==
  /\ TaskAt(tid, "copying")
  /\ tasks' = [tasks EXCEPT ![tid].pc = "ok",
                 ![tid].outcome = Some(CompleteMetadata(tasks[tid].job.source, now))]
  /\ TaskFrame /\ UNCHANGED <<state, files>>

\* backup.rs:32-36 and 73-77: validation or the copy fails
TaskCopyErr(tid) ==
  /\ TaskAt(tid, "copying")
  /\ tasks' = [tasks EXCEPT ![tid].pc = "err", ![tid].outcome = Some("copy failed")]
  /\ TaskFrame /\ UNCHANGED <<state, files>>

\* backup.rs:60-64: the token's branch of the select
TaskCancelled(tid) ==
  /\ TaskAt(tid, "copying")
  /\ tasks[tid].cancelled
  /\ tasks' = [tasks EXCEPT ![tid].pc = "err", ![tid].outcome = Some("Backup cancelled")]
  /\ TaskFrame /\ UNCHANGED <<state, files>>

\* executor.rs:76-100
TaskRecordSuccess(tid) ==
  /\ TaskAt(tid, "ok")
  /\ LET sm == UpdateJobState([state |-> state, files |-> files], state_path,
                              tasks[tid].job.id,
                              UpdSuccess(Unwrap(tasks[tid].outcome), now), now)
     IN /\ state' = sm.state
        /\ files' = sm.files
  /\ tasks' = [tasks EXCEPT ![tid].pc = "finished"]
  /\ TaskFrame

\* executor.rs:101-114
TaskRecordFailure(tid) ==
  /\ TaskAt(tid, "err")
  /\ LET sm == UpdateJobState([state |-> state, files |-> files], state_path,
                              tasks[tid].job.id,
                              UpdFailed(Unwrap(tasks[tid].outcome), now), now)
     IN /\ state' = sm.state
        /\ files' = sm.files
  /\ tasks' = [tasks EXCEPT ![tid].pc = "finished"]
  /\ TaskFrame

TaskStep ==
  \E tid \in 1..MaxSpawns :
    \/ TaskBegin(tid)
    \/ TaskCopyOk(tid)
    \/ TaskCopyErr(tid)
    \/ TaskCancelled(tid)
    \/ TaskRecordSuccess(tid)
    \/ TaskRecordFailure(tid)

Next ==
  \/ Startup
  \/ Signal
  \/ Tick
  \/ \E new_jobs \in NewConfigs : HandleConfigChange(new_jobs)
  \/ TickSaveFails
  \/ \E new_jobs \in NewConfigs : ReloadSaveFails(new_jobs)
  \/ ShutdownBegin
  \/ ShutdownPoll
  \/ ShutdownFinish
  \/ TaskStep

Spec == Init /\ [][Next]_vars

(***************************************************************************)
(* Properties of the daemon                                                *)
(***************************************************************************)
\* the tasks of a job that are inside execute_job: spawned and neither
\* returned nor dropped
LiveTasks(id) ==
  {tid \in 1..Len(tasks) : tasks[tid].job.id = id /\ ~IsFinished(tasks[tid])}

\* C1: for every job id at most one task is executing execute_job, and a
\* task that is executing it is the one the running-jobs table holds under
\* that id (so a tick, which starts a job only when its id is not in the
\* table, never starts a second one beside it)
C1_NoSelfConcurrency ==
  /\ \A id \in JobIds : Cardinality(LiveTasks(id)) <= 1
  /\ \A tid \in 1..Len(tasks) :
       ~IsFinished(tasks[tid]) =>
         /\ tasks[tid].job.id \in DOMAIN running_jobs
         /\ running_jobs[tasks[tid].job.id] = tid
  /\ \A id \in DOMAIN running_jobs :
       running_jobs[id] \in 1..Len(tasks) /\ tasks[running_jobs[id]].job.id = id

\* C1 happens: the first task spawned has not yet begun, its job is ready by
\* its record, and a later tick (a tick spawns at most two tasks) has spawned
\* the third task without starting that job again
C1_Witness ==
  /\ Len(tasks) = 3
  /\ tasks[1].pc = "spawned"
  /\ IsReady(state, tasks[1].job, now)
  /\ running_jobs[tasks[1].job.id] = 1
  /\ tasks[3].job.id # tasks[1].job.id

\* the documents of the state file and of its temporary that parse
PersistedDocs == {from_json(files[p]) : p \in {q \in FileNames : ParsesOk(files[q])}}

\* C6: the document in memory and every persisted document hold at most one
\* job record per id
C6_UniqueJobIds ==
  /\ UniqueIds(state)
  /\ \A doc \in PersistedDocs : UniqueIds(doc)

\* C6 happens: a hot-reload and a finished backup lie behind, and the
\* document, in memory and in the state file, has a record for each job
C6_Witness ==
  /\ reloads = 1
  /\ \E tid \in 1..Len(tasks) : tasks[tid].pc = "finished"
  /\ Len(state.jobs) = 2
  /\ ParsesOk(files[state_path])
  /\ Len(from_json(files[state_path]).jobs) = 2

\* C7 as the specification states it: a job whose status is Running has its
\* active_backup set
C7_RunningHasActiveBackup ==
  \A i \in 1..Len(state.jobs) :
    state.jobs[i].status.type = "running" => IsSome(state.jobs[i].active_backup)

\* a step of the main loop that handled a configuration change
IsReloadStep == reloads' # reloads

\* the new list has this id, and every entry of it with this id has the old
\* entry's source and target and another schedule
OnlyScheduleDiffers(old_jobs, new_jobs, id) ==
  /\ HasId(old_jobs, id) /\ HasId(new_jobs, id)
  /\ \A i \in 1..Len(new_jobs) :
       new_jobs[i].id = id =>
         /\ new_jobs[i].source = MapGet(old_jobs, id).source
         /\ new_jobs[i].target = MapGet(old_jobs, id).target
         /\ new_jobs[i].schedule # MapGet(old_jobs, id).schedule

\* the status of a job in the document, None when it has no record
StatusOf(doc, id) ==
  IF IsSome(get_job(doc, id)) THEN Some(Unwrap(get_job(doc, id)).status) ELSE None

\* C8: a hot-reload whose only difference for a job is its schedule leaves
\* that job, when it is running, in the table with the same task, does not
\* cancel its token, does not abort its task and does not change its status
C8_ScheduleOnlyKeepsRunning ==
  [][IsReloadStep =>
       \A id \in DOMAIN running_jobs :
         OnlyScheduleDiffers(config, last_reload'.new, id) =>
           /\ id \in DOMAIN running_jobs'
           /\ running_jobs'[id] = running_jobs[id]
           /\ tasks'[running_jobs[id]].cancelled = tasks[running_jobs[id]].cancelled
           /\ tasks[running_jobs[id]].pc # "aborted"
                => tasks'[running_jobs[id]].pc # "aborted"
           /\ StatusOf(state', id) = StatusOf(state, id)]_vars

\* C8 happens: the reload just handled changed only the schedule of a job
\* that was running, and that job is still copying, in the table, with its
\* token not cancelled and its status Running
C8_Witness ==
  /\ last_reload.kind = "applied"
  /\ \E id \in last_reload.was_running :
       /\ OnlyScheduleDiffers(last_reload.old, last_reload.new, id)
       /\ id \in DOMAIN running_jobs
       /\ tasks[running_jobs[id]].pc = "copying"
       /\ ~tasks[running_jobs[id]].cancelled
       /\ StatusOf(state, id) = Some(Running(now))

\* the new list has lost this id, or has an entry with this id whose source
\* or target is not the old one
RemovedOrPathChanged(old_jobs, new_jobs, id) ==
  \/ ~HasId(new_jobs, id)
  \/ \E i \in 1..Len(new_jobs) :
       /\ new_jobs[i].id = id
       /\ \/ new_jobs[i].source # MapGet(old_jobs, id).source
          \/ new_jobs[i].target # MapGet(old_jobs, id).target

\* C9: a hot-reload cancels the token and removes the table entry of exactly
\* the running jobs it removed or whose source or target it changed; the
\* root token, and the entry and token of every other running job, stay as
\* they were
C9_ReloadCancelsOnlyAffected ==
  [][IsReloadStep =>
       /\ root_cancelled' = root_cancelled
       /\ DOMAIN running_jobs' \subseteq DOMAIN running_jobs
       /\ \A id \in DOMAIN running_jobs :
            IF RemovedOrPathChanged(config, last_reload'.new, id)
            THEN /\ id \notin DOMAIN running_jobs'
                 /\ tasks'[running_jobs[id]].cancelled
            ELSE /\ id \in DOMAIN running_jobs'
                 /\ running_jobs'[id] = running_jobs[id]
                 /\ tasks'[running_jobs[id]].cancelled
                      = tasks[running_jobs[id]].cancelled
       /\ \A tid \in 1..Len(tasks) :
            (\A id \in DOMAIN running_jobs : running_jobs[id] # tid)
              => tasks'[tid].cancelled = tasks[tid].cancelled]_vars

\* C9 happens: of two running jobs the reload just handled removed or
\* re-pathed one, whose token is now cancelled and whose entry is gone, and
\* the other is still copying under its entry with its token not cancelled
C9_Witness ==
  /\ last_reload.kind = "applied"
  /\ ~root_cancelled
  /\ \E id, other \in last_reload.was_running :
       /\ id # other
       /\ RemovedOrPathChanged(last_reload.old, last_reload.new, id)
       /\ id \notin DOMAIN running_jobs
       /\ \E tid \in 1..Len(tasks) :
            tasks[tid].job.id = id /\ tasks[tid].cancelled /\ tasks[tid].pc = "aborted"
       /\ other \in DOMAIN running_jobs
       /\ tasks[running_jobs[other]].pc = "copying"
       /\ ~tasks[running_jobs[other]].cancelled

\* two entries of the list have the same id
HasDuplicateId(jobs) ==
  \E i, k \in 1..Len(jobs) : i # k /\ jobs[i].id = jobs[k].id

\* C10 as the specification states it: a hot-reloaded configuration with a
\* repeated job id is rejected and the old one keeps running: the
\* configuration is unchanged, no running job is cancelled or removed from
\* the table, and the main loop goes on
C10_DuplicateReloadRejected ==
  [][(IsReloadStep /\ HasDuplicateId(last_reload'.new)) =>
       /\ config' = config
       /\ running_jobs' = running_jobs
       /\ \A tid \in 1..Len(tasks) :
            /\ tasks'[tid].cancelled = tasks[tid].cancelled
            /\ tasks'[tid].pc = tasks[tid].pc
       /\ dpc' = "running"]_vars

\* the tasks the daemon's table of running jobs points at
RunningTasks == {running_jobs[id] : id \in DOMAIN running_jobs}

\* C14: once the root token is cancelled, a job that is still running is
\* not cancelled as long as the grace period of the shutdown has not
\* expired: its token stays uncancelled until the forced cancellation.
C14_GraceBeforeCancel ==
  (root_cancelled /\ dpc \in {"running", "shutting"} /\ polls < GracePolls) =>
    \A tid \in RunningTasks :
      ~IsFinished(tasks[tid]) => ~tasks[tid].cancelled

\* C15 (first half): the token of every entry of the running-jobs table is
\* a child of the root token, so when the root is cancelled every one of
\* them is cancelled.
C15_RootCancelsEveryJob ==
  root_cancelled => \A tid \in RunningTasks : tasks[tid].cancelled

\* a step in which the daemon cancels the token of a job
CancelsJobToken ==
  \E tid \in 1..Len(tasks) :
    /\ ~tasks[tid].cancelled
    /\ tasks'[tid].cancelled
    /\ (reloads' # reloads \/ dpc' = "stopped")

\* C15: every running job holds a child of the root token: the root
\* cancelled means every running job's token cancelled, and a step that
\* cancels the token of a job leaves the root token as it was.
C15_JobTokensAreChildren ==
  /\ [](C15_RootCancelsEveryJob)
  /\ [][CancelsJobToken => root_cancelled' = root_cancelled]_vars

\* the root was cancelled while one job was running and its task holds a
\* cancelled token, and a reload had cancelled the token of another job
\* before that
C15_Witness ==
  /\ root_cancelled
  /\ \E tid \in RunningTasks : tasks[tid].cancelled /\ ~IsFinished(tasks[tid])
  /\ \E tid \in 1..Len(tasks) : tasks[tid].pc = "aborted"

\* C18 as the specification states it: after a save of the state failed
\* during a tick or a hot-reload, the main loop goes on (run() has not
\* returned the error) and the state file holds a complete document
C18_SaveFailureSurvived ==
  failures > 0 =>
    /\ dpc # "failed"
    /\ ParsesOk(files[state_path])

(***************************************************************************)
(* core/backup.rs and scheduler/executor.rs: one run of execute_job        *)
(* followed through execute_backup, with the target directory it writes to *)
(***************************************************************************)
\* snapshots of earlier runs in the target directory
MaxPrior == 6
\* largest retention_count of the configuration
MaxRetention == 3

\* A file name is the sequence of the parts it is put together from.
\* generate_backup_name: "{sanitized source}_{timestamp}_{millis}"
SnapshotName(source, t) == <<source, ToString(t)>>
\* backup.rs:109-113: the name with _PARTIAL appended
PartialName(name) == Append(name, "_PARTIAL")
\* name.ends_with("_PARTIAL")
EndsWithPartial(name) == Len(name) > 0 /\ name[Len(name)] = "_PARTIAL"
\* name.starts_with(".keephive")
StartsWithKeephive(name) == Len(name) > 0 /\ name[1] = ".keephive"

\* An entry of the target directory: its name, whether it is a directory,
\* its modification time and, for a snapshot directory, whether the run
\* that wrote it completed (BackupMetadata.is_complete)
DirEntry(name, is_dir, mtime, run) ==
  [name |-> name, is_dir |-> is_dir, mtime |-> mtime, run |-> run]

Names(dir) == {dir[i].name : i \in 1..Len(dir)}

\* fs::remove_dir_all
RemoveEntry(dir, name) == SelectSeq(dir, LAMBDA e : e.name # name)

\* backup.rs:47-53: a directory already at the name is removed, then the
\* directory is created
CreateSnapshotDir(dir, name, t) ==
  Append(RemoveEntry(dir, name), DirEntry(name, TRUE, t, "incomplete"))

\* fs::rename of a directory: fails when the file system says so or when
\* the new name is taken
RenameEntry(dir, from, to, io_ok) ==
  IF io_ok /\ to \notin Names(dir)
  THEN [ok |-> TRUE,
        dir |-> [i \in 1..Len(dir) |->
                   IF dir[i].name = from THEN [dir[i] EXCEPT !.name = to]
                   ELSE dir[i]]]
  ELSE [ok |-> FALSE, dir |-> dir]

\* BackupOrchestrator::mark_partial
mark_partial(dir, backup_name, io_ok) ==
  RenameEntry(dir, backup_name, PartialName(backup_name), io_ok)

\* BackupOrchestrator::detect_partial_backups: the names it returns
detect_partial_backups(dir) ==
  LET found == SelectSeq(dir, LAMBDA e : EndsWithPartial(e.name))
  IN [i \in 1..Len(found) |-> found[i].name]

\* backup.rs:212-222: the entries cleanup_old_backups collects
IsBackupCandidate(e) ==
  /\ ~(EndsWithPartial(e.name) \/ StartsWithKeephive(e.name))
  /\ e.is_dir

\* a stable sort that puts the oldest first
RECURSIVE SortOldestFirst(_)
SortOldestFirst(es) ==
  IF es = <<>> THEN <<>>
  ELSE LET rest == SortOldestFirst(Tail(es))
           before == SelectSeq(rest, LAMBDA e : e.mtime < Head(es).mtime)
           after == SelectSeq(rest, LAMBDA e : e.mtime >= Head(es).mtime)
       IN before \o <<Head(es)>> \o after

\* backup.rs:227: sort_by(|a, b| b.1.cmp(&a.1)), a stable sort that puts the
\* newest first
RECURSIVE SortNewestFirst(_)
SortNewestFirst(es) ==
  IF es = <<>> THEN <<>>
  ELSE LET rest == SortNewestFirst(Tail(es))
           before == SelectSeq(rest, LAMBDA e : e.mtime > Head(es).mtime)
           after == SelectSeq(rest, LAMBDA e : e.mtime <= Head(es).mtime)
       IN before \o <<Head(es)>> \o after

\* a cleanup that keeps retention_count backups beside the newest one
CleanupKeepsOneMore(dir, n) ==
  LET backups == SortNewestFirst(SelectSeq(dir, IsBackupCandidate))
      removed == {backups[i].name : i \in (n + 2)..Len(backups)}
  IN SelectSeq(dir, LAMBDA e : e.name \notin removed)

\* BackupOrchestrator::cleanup_old_backups when every removal succeeds
cleanup_old_backups(dir, n) ==
  LET backups == SortNewestFirst(SelectSeq(dir, IsBackupCandidate))
      removed == {backups[i].name : i \in (n + 1)..Len(backups)}
  IN SelectSeq(dir, LAMBDA e : e.name \notin removed)

(***************************************************************************)
(* state/manager.rs one step at a time: tasks calling update_job_state and *)
(* save side by side, with I/O errors and a crash of the process           *)
(***************************************************************************)
\* calls of update_job_state each updating task makes
MaxOps == 2
\* tasks that call save()
MaxSavers == 1

\* one updating task per job id, then the savers, then a task that calls
\* update_job_state for an id the document has no record of
Updaters == 1..2
Stray == 2 + MaxSavers + 1
Callers == 1..Stray
JobOf(c) == IF c = 1 THEN "a" ELSE "b"
OpsOf(c) == IF c \in Updaters THEN MaxOps ELSE 1

\* the k-th call of task c: an updating task alternates the two closures of
\* execute_job on its own job, a saver calls save()
CallerOp(c, k) ==
  IF c \in Updaters
  THEN [kind |-> "update", id |-> JobOf(c),
        updater |-> IF k % 2 = 1
                    THEN UpdRunning(BaseJob(JobOf(c)), k)
                    ELSE UpdSuccess(CompleteMetadata(BaseJob(JobOf(c)).source, k), k),
        at |-> k]
  ELSE IF c = Stray
  THEN [kind |-> "update", id |-> "nonexistent", updater |-> UpdResetIdle,
        at |-> k]
  ELSE [kind |-> "save"]

\* the state paths of the configuration: the default, and one whose
\* extension is the one save_state_atomic gives its temporary
StatePaths == FileNames

\* the document of a daemon that has initialised jobs a and b
InitialDoc == InsertNewJobs(BackupStateNew(0), InitialConfig, 0)

\* save_mutex.lock() that takes the mutex whoever holds it
MutexLockNoExclusion(mutex, c) == [acquired |-> TRUE, mutex |-> c]

\* save_mutex.lock().await: granted when the mutex is free
MutexLock(mutex, c) ==
  IF mutex = 0 THEN [acquired |-> TRUE, mutex |-> c]
  ELSE [acquired |-> FALSE, mutex |-> mutex]

\* drop(_save_guard)
MutexUnlock(mutex, c) == IF mutex = c THEN 0 ELSE mutex

NewCaller == [pc |-> "idle", done |-> 0, snapshot |-> None, failed |-> FALSE]

InitSM ==
  /\ state_path \in StatePaths
  /\ state = InitialDoc
  /\ files = [NoFiles EXCEPT ![state_path] = to_json(InitialDoc)]
  /\ callers = [c \in Callers |-> NewCaller]
  /\ save_mutex = 0
  /\ failures = 0
  /\ crashed = FALSE
  /\ init_call = NoCall
  /\ target_dir = << >>
  /\ job_run = NoRun
  /\ retention_count = 0
  /\ loaded = None
  /\ watcher = NoWatcher
  /\ pure_call = NoPure
  /\ now = 0
  /\ config = InitialConfig
  /\ running_jobs = << >>
  /\ tasks = << >>
  /\ root_cancelled = FALSE
  /\ dpc = "running"
  /\ polls = 0
  /\ reloads = 0
  /\ loop_since_cancel = FALSE
  /\ last_reload = NoReload

CallerAt(c, pc) == ~crashed /\ callers[c].pc = pc

\* the next call of the task, the one it is in when it is not idle
CurrentOp(c) == CallerOp(c, callers[c].done + 1)

\* manager.rs:59 and 109: the call starts and gets the save mutex
SaveMutexLock(c) ==
  /\ CallerAt(c, "idle")
  /\ callers[c].done < OpsOf(c)
  /\ MutexLock(save_mutex, c).acquired
  /\ save_mutex' = MutexLock(save_mutex, c).mutex
  /\ callers' = [callers EXCEPT ![c].pc = "locked"]
  /\ UNCHANGED <<state, files, state_path, failures, crashed, daemonVars, init_call, backupVars, extraVars>>

\* manager.rs:112-123: update_job_state under the write lock; a job that
\* is not in the document ends the call with Ok
WriteLockMutate(c) ==
  /\ CallerAt(c, "locked")
  /\ CurrentOp(c).kind = "update"
  /\ LET op == CurrentOp(c)
         r == MutateAndSnapshot(state, op.id, op.updater, op.at)
     IN /\ state' = r.state
        /\ IF r.found
           THEN /\ callers' = [callers EXCEPT ![c].pc = "snapshot",
                                              ![c].snapshot = Some(r.snapshot)]
                /\ UNCHANGED save_mutex
           ELSE /\ callers' = [callers EXCEPT ![c].pc = "idle", ![c].done = @ + 1]
                /\ save_mutex' = MutexUnlock(save_mutex, c)
  /\ UNCHANGED <<files, state_path, failures, crashed, daemonVars, init_call, backupVars, extraVars>>

\* manager.rs:62-65: save() clones the document under the read lock
ReadLockClone(c) ==
  /\ CallerAt(c, "locked")
  /\ CurrentOp(c).kind = "save"
  /\ callers' = [callers EXCEPT ![c].pc = "snapshot", ![c].snapshot = Some(state)]
  /\ UNCHANGED <<state, files, state_path, save_mutex, failures, crashed, daemonVars, init_call, backupVars, extraVars>>

\* manager.rs:81: fs::write creates or truncates the temporary
WriteTempBegin(c) ==
  /\ CallerAt(c, "snapshot")
  /\ files' = [files EXCEPT ![with_extension(state_path, "tmp")] = Partial]
  /\ callers' = [callers EXCEPT ![c].pc = "writing"]
  /\ UNCHANGED <<state, state_path, save_mutex, failures, crashed, daemonVars, init_call, backupVars, extraVars>>

\* manager.rs:81: fs::write has written the document to its end
WriteTempEnd(c) ==
  /\ CallerAt(c, "writing")
  /\ files' = [files EXCEPT ![with_extension(state_path, "tmp")] =
                              to_json(Unwrap(callers[c].snapshot))]
  /\ callers' = [callers EXCEPT ![c].pc = "written"]
  /\ UNCHANGED <<state, state_path, save_mutex, failures, crashed, daemonVars, init_call, backupVars, extraVars>>

\* manager.rs:85-93: the temporary is opened and synced
SyncTemp(c) ==
  /\ CallerAt(c, "written")
  /\ callers' = [callers EXCEPT ![c].pc = "synced"]
  /\ UNCHANGED <<state, files, state_path, save_mutex, failures, crashed, daemonVars, init_call, backupVars, extraVars>>

\* manager.rs:96: the rename
RenameTemp(c) ==
  /\ CallerAt(c, "synced")
  /\ files' = RenameFile(files, with_extension(state_path, "tmp"), state_path)
  /\ callers' = [callers EXCEPT ![c].pc = "renamed"]
  /\ UNCHANGED <<state, state_path, save_mutex, failures, crashed, daemonVars, init_call, backupVars, extraVars>>

\* manager.rs:100 and 68, 129: Ok(()) and the guard is dropped
ReturnOk(c) ==
  /\ CallerAt(c, "renamed")
  /\ callers' = [callers EXCEPT ![c].pc = "idle", ![c].done = @ + 1,
                                ![c].snapshot = None]
  /\ save_mutex' = MutexUnlock(save_mutex, c)
  /\ UNCHANGED <<state, files, state_path, failures, crashed, daemonVars, init_call, backupVars, extraVars>>

\* manager.rs:81-97: the file operation the call is about to make, or is
\* in, returns an error; the ? returns it and the guard is dropped
IoError(c) ==
  /\ ~crashed
  /\ callers[c].pc \in {"snapshot", "writing", "written", "synced"}
  /\ failures < MaxFailures
  /\ failures' = failures + 1
  /\ callers' = [callers EXCEPT ![c].pc = "idle", ![c].done = @ + 1,
                                ![c].snapshot = None, ![c].failed = TRUE]
  /\ save_mutex' = MutexUnlock(save_mutex, c)
  /\ UNCHANGED <<state, files, state_path, crashed, daemonVars, init_call, backupVars, extraVars>>

\* the process is killed: no task takes another step, the files stay
Crash ==
  /\ ~crashed
  /\ crashed' = TRUE
  /\ UNCHANGED <<state, files, state_path, callers, save_mutex, failures, daemonVars, init_call, backupVars, extraVars>>

NextSM ==
  \/ \E c \in Callers :
       \/ SaveMutexLock(c)
       \/ WriteLockMutate(c)
       \/ ReadLockClone(c)
       \/ WriteTempBegin(c)
       \/ WriteTempEnd(c)
       \/ SyncTemp(c)
       \/ RenameTemp(c)
       \/ ReturnOk(c)
       \/ IoError(c)
  \/ Crash

SpecSM == InitSM /\ [][NextSM]_vars

(***************************************************************************)
(* Properties of the state manager                                         *)
(***************************************************************************)
\* C2 as the specification states it: whatever step a save or update is at,
\* whether it failed or the process crashed, the file at state_path holds a
\* complete document, never a truncated or intermediate one
C2_StateFileAlwaysComplete == ParsesOk(files[state_path])

\* the tasks inside the write-temp / fsync / rename sequence
InSaveSequence ==
  {c \in Callers : callers[c].pc \in {"snapshot", "writing", "written", "synced", "renamed"}}

\* C3: at most one task at a time is inside the write-temp / fsync / rename
\* sequence, and that task holds the save mutex
C3_SaveSerialized ==
  /\ Cardinality(InSaveSequence) <= 1
  /\ \A c \in InSaveSequence : save_mutex = c

\* C3 happens: one task is writing the temporary while an updating task and
\* a saver have calls left and wait for the mutex
C3_Witness ==
  /\ \E c \in Callers : callers[c].pc = "writing"
  /\ \E c \in Updaters : callers[c].pc = "idle" /\ callers[c].done < OpsOf(c)
  /\ \E c \in Callers \ Updaters : callers[c].pc = "idle" /\ callers[c].done = 0

RECURSIVE ApplyOps(_, _, _)
\* the record of a job after the first k calls of its task, in their order
ApplyOps(js, c, k) ==
  IF k = 0 THEN js
  ELSE ApplyUpdater(ApplyOps(js, c, k - 1), CallerOp(c, k).updater)

AllDone == \A c \in Callers : callers[c].pc = "idle" /\ callers[c].done = OpsOf(c)

\* C4: when the file system returns no error no call fails, and once every
\* task has finished, the document in memory and the one read back from
\* state_path hold, for every job, the record its task's calls produce one
\* after the other, the last one included
C4_NoLostUpdate ==
  /\ failures = 0 => \A c \in Callers : ~callers[c].failed
  /\ (AllDone /\ failures = 0) =>
       /\ \A c \in Updaters :
            get_job(state, JobOf(c)) =
              Some(ApplyOps(Unwrap(get_job(InitialDoc, JobOf(c))), c, OpsOf(c)))
       /\ Len(state.jobs) = Len(InitialDoc.jobs)
       /\ ParsesOk(files[state_path])
       /\ from_json(files[state_path]) = state

\* C4 happens: every task has made all its calls and none failed, and the
\* two jobs are Idle with their last run recorded
C4_Witness ==
  /\ AllDone /\ failures = 0 /\ ~crashed
  /\ \A c \in Updaters :
       /\ Unwrap(get_job(state, JobOf(c))).status = Idle
       /\ Unwrap(get_job(state, JobOf(c))).last_run = Some(MaxOps)

\* task c is in update_job_state, holds the save mutex, and the document
\* has no record of the id it was called with
UpdatesMissingJob(c) ==
  /\ callers[c].pc = "locked"
  /\ CurrentOp(c).kind = "update"
  /\ get_job(state, CurrentOp(c).id) = None

\* C23: update_job_state for an id without a record returns Ok at its next
\* step: the document in memory (last_updated with it) and every file are
\* as before, the call is not failed, and the save mutex is free; the task
\* never enters the write-temp / fsync / rename sequence.
C23_MissingJobIsNoOp ==
  [][\A c \in Callers :
       (UpdatesMissingJob(c) /\ callers'[c] # callers[c]) =>
         /\ callers'[c].pc = "idle"
         /\ callers'[c].done = callers[c].done + 1
         /\ ~callers'[c].failed
         /\ callers'[c].snapshot = None
         /\ state' = state
         /\ files' = files
         /\ save_mutex' = 0]_vars

\* the call for the missing id has returned, and another task has taken
\* the save mutex after it and is writing
C23_Witness ==
  /\ callers[Stray].done = 1
  /\ callers[Stray].pc = "idle"
  /\ ~callers[Stray].failed
  /\ state.last_updated = 0
  /\ \E c \in Callers : callers[c].pc = "locked" /\ save_mutex = c

(***************************************************************************)
(* scheduler/engine.rs: initialize_jobs called on job lists of every shape *)
(***************************************************************************)
\* longest job list handed to initialize_jobs
MaxInitJobs == 3
\* calls of initialize_jobs in one run
MaxInitCalls == 2

\* job lists with repeated ids at every position, with jobs the document
\* has and jobs it has not
InitPool == {BaseJob("a"), BaseJob("b"), [BaseJob("a") EXCEPT !.source = "src_x"]}
InitLists == UNION {[1..n -> InitPool] : n \in 0..MaxInitJobs}

InitI ==
  /\ state_path = DEFAULT_STATE_FILE
  /\ \/ /\ files = NoFiles
        /\ state = BackupStateNew(0)
     \/ \E doc \in PriorDocs :
          /\ files = [NoFiles EXCEPT ![DEFAULT_STATE_FILE] = to_json(doc)]
          /\ state = from_json(to_json(doc))
  /\ init_call = NoCall
  /\ target_dir = << >>
  /\ job_run = NoRun
  /\ retention_count = 0
  /\ loaded = None
  /\ watcher = NoWatcher
  /\ pure_call = NoPure
  /\ callers = << >>
  /\ save_mutex = 0
  /\ failures = 0
  /\ crashed = FALSE
  /\ now = 0
  /\ config = << >>
  /\ running_jobs = << >>
  /\ tasks = << >>
  /\ root_cancelled = FALSE
  /\ dpc = "init"
  /\ polls = 0
  /\ reloads = 0
  /\ loop_since_cancel = FALSE
  /\ last_reload = NoReload

\* one call of Scheduler::initialize_jobs, at the time of its number
InitializeJobsCall(jobs) ==
  /\ init_call.n < MaxInitCalls
  /\ LET r == initialize_jobs([state |-> state, files |-> files], state_path,
                              jobs, init_call.n + 1)
     IN /\ state' = r.sm.state
        /\ files' = r.sm.files
        /\ init_call' = [n |-> init_call.n + 1, jobs |-> jobs, ok |-> r.ok]
  /\ UNCHANGED <<state_path, callers, save_mutex, failures, crashed, daemonVars,
                 backupVars, extraVars>>

NextI == \E jobs \in InitLists : InitializeJobsCall(jobs)

SpecInit == InitI /\ [][NextI]_vars

\* C5: a call of initialize_jobs on a list that repeats an id returns an
\* error and leaves the document in memory and the files exactly as they
\* were, wherever in the list the repetition is
C5_DuplicateAbortsInitialization ==
  [][(init_call'.n # init_call.n /\ HasDuplicateId(init_call'.jobs)) =>
       /\ ~init_call'.ok
       /\ state' = state
       /\ files' = files]_vars

\* C5 happens: the last call failed on a list whose first job has no record
\* in the document and whose second and third jobs share an id, after an
\* earlier call had put a record in the document and the state file
C5_Witness ==
  /\ init_call.n = 2
  /\ ~init_call.ok
  /\ Len(init_call.jobs) = 3
  /\ init_call.jobs[2].id = init_call.jobs[3].id
  /\ init_call.jobs[1].id # init_call.jobs[2].id
  /\ get_job(state, init_call.jobs[1].id) = None
  /\ Len(state.jobs) = 1
  /\ ParsesOk(files[state_path])
  /\ from_json(files[state_path]).jobs = state.jobs

(***************************************************************************)
(* One backup run: execute_job, execute_backup, the token, and what the    *)
(* daemon and the operating system can do to the task                      *)
(***************************************************************************)
\* the job that is run
RunJob == BaseJob("a")

\* snapshots of p earlier runs that completed, the i-th written at time i
\* (or two by two at the same time, as a coarse clock has it)
PriorSnapshots(p, tied) ==
  [i \in 1..p |->
     DirEntry(SnapshotName(RunJob.source, i), TRUE,
              IF tied THEN (i + 1) \div 2 ELSE i, "complete")]

\* what else a target directory holds: a snapshot marked partial, the probe
\* file of the validation, a directory and a file of the operator
OtherEntries ==
  <<DirEntry(PartialName(SnapshotName(RunJob.source, 0)), TRUE, 0, "incomplete"),
    DirEntry(<<".keephive", "_write_test">>, FALSE, 0, "other"),
    DirEntry(<<".keephive", "_cache">>, TRUE, 0, "other"),
    DirEntry(<<"notes.txt">>, FALSE, 0, "other")>>

Reverse(seq) == [i \in 1..Len(seq) |-> seq[Len(seq) + 1 - i]]

\* the listings read_dir can give of a target directory before the run
PriorListings ==
  UNION {{PriorSnapshots(p, tied) \o extra, Reverse(PriorSnapshots(p, tied) \o extra)} :
           p \in 0..MaxPrior, tied \in BOOLEAN, extra \in {<<>>, OtherEntries}}

NewRun == [pc |-> "spawned", cancelled |-> FALSE, cancelled_in_copy |-> FALSE,
           backup_name |-> None, outcome |-> None, result |-> None,
           crashed_at |-> None, detected |-> <<>>, before_cleanup |-> None,
           primary |-> None, rename_failed |-> FALSE, cleanup_failed |-> FALSE,
           save_failed |-> FALSE]

\* the job as the state file of an earlier run of the daemon recorded it:
\* as it is configured now, or with the paths it had then (initialize_jobs
\* leaves a record that exists as it is)
RecordedJobs == {RunJob, [RunJob EXCEPT !.source = "src_x", !.target = "tgt_x"]}

InitB ==
  /\ state_path = DEFAULT_STATE_FILE
  /\ \E recorded \in RecordedJobs :
       state = InsertNewJobs(BackupStateNew(0), <<recorded>>, 0)
  /\ files = [NoFiles EXCEPT ![DEFAULT_STATE_FILE] = to_json(state)]
  /\ target_dir \in PriorListings
  /\ retention_count \in 0..MaxRetention
  /\ job_run = NewRun
  /\ loaded = None
  /\ watcher = NoWatcher
  /\ pure_call = NoPure
  /\ now = MaxPrior + 1
  /\ config = <<RunJob>>
  /\ init_call = NoCall
  /\ callers = << >>
  /\ save_mutex = 0
  /\ failures = 0
  /\ crashed = FALSE
  /\ running_jobs = << >>
  /\ tasks = << >>
  /\ root_cancelled = FALSE
  /\ dpc = "running"
  /\ polls = 0
  /\ reloads = 0
  /\ loop_since_cancel = FALSE
  /\ last_reload = NoReload

\* what a step of the run leaves alone besides the document, the files, the
\* directory, the run and the count of I/O errors
RunFrame ==
  UNCHANGED <<state_path, retention_count, now, config, running_jobs, tasks,
              root_cancelled, dpc, polls, reloads, loop_since_cancel,
              last_reload, callers, save_mutex, crashed, init_call,
              extraVars>>

\* the task is inside execute_job
RunIsLive == job_run.pc \in {"spawned", "starting", "copying", "ok", "err", "cleanup"}

RunUpdate(u) ==
  LET sm == UpdateJobState([state |-> state, files |-> files], state_path,
                           RunJob.id, u, now)
  IN /\ state' = sm.state
     /\ files' = sm.files

\* an execute_job that goes on to the orchestrator with the Running status
\* set in memory only
BkBeginUnsaved ==
  /\ job_run.pc = "spawned"
  /\ state' = MutateAndSnapshot(state, RunJob.id, UpdRunning(RunJob, now), now).state
  /\ job_run' = [job_run EXCEPT !.pc = "starting"]
  /\ UNCHANGED <<files, target_dir, failures>> /\ RunFrame

\* executor.rs:58-65
BkBegin ==
  /\ job_run.pc = "spawned"
  /\ RunUpdate(UpdRunning(RunJob, now))
  /\ job_run' = [job_run EXCEPT !.pc = "starting"]
  /\ UNCHANGED <<target_dir, failures>> /\ RunFrame

\* executor.rs:59-65: the save of the Running status fails and the ?
\* returns the error; the document in memory holds the update already
BkBeginSaveFails ==
  /\ job_run.pc = "spawned"
  /\ failures < MaxFailures
  /\ \E step \in FailSteps :
       LET r == MutateAndSnapshot(state, RunJob.id, UpdRunning(RunJob, now), now)
       IN /\ state' = r.state
          /\ files' = SaveStateAtomicFails(files, state_path, r.snapshot, step)
  /\ failures' = failures + 1
  /\ job_run' = [job_run EXCEPT !.pc = "finished",
                                !.result = Some("Failed to write temporary state file"),
                                !.save_failed = TRUE]
  /\ UNCHANGED target_dir /\ RunFrame

\* backup.rs:32-36: the prerequisites are not met
BkValidationFails ==
  /\ job_run.pc = "starting"
  /\ job_run' = [job_run EXCEPT !.pc = "err",
                                !.outcome = Some("Backup validation failed")]
  /\ UNCHANGED <<state, files, target_dir, failures>> /\ RunFrame

\* backup.rs:52-53: create_dir_all fails
BkCreateDirFails ==
  /\ job_run.pc = "starting"
  /\ failures < MaxFailures
  /\ failures' = failures + 1
  /\ job_run' = [job_run EXCEPT !.pc = "err",
                                !.outcome = Some("Failed to create backup directory")]
  /\ UNCHANGED <<state, files, target_dir>> /\ RunFrame

\* backup.rs:43-55: the snapshot directory is made
BkCreateDir ==
  /\ job_run.pc = "starting"
  /\ LET name == SnapshotName(RunJob.source, now)
     IN /\ target_dir' = CreateSnapshotDir(target_dir, name, now)
        /\ job_run' = [job_run EXCEPT !.pc = "copying", !.backup_name = Some(name)]
  /\ UNCHANGED <<state, files, failures>> /\ RunFrame

\* backup.rs:58 and 66-70: the copy ends well, mark_complete
BkCopyOk ==
  /\ job_run.pc = "copying"
  /\ LET name == Unwrap(job_run.backup_name)
     IN /\ target_dir' = [i \in 1..Len(target_dir) |->
                            IF target_dir[i].name = name
                            THEN [target_dir[i] EXCEPT !.run = "complete"]
                            ELSE target_dir[i]]
        /\ job_run' = [job_run EXCEPT !.pc = "ok",
                                      !.outcome = Some(CompleteMetadata(name, now))]
  /\ UNCHANGED <<state, files, failures>> /\ RunFrame

\* backup.rs:61-62 and 74-75: mark_partial(...).await? and then the error
\* the run ends with; the run remembers the error of the copy or of the
\* cancellation and whether the rename failed
EndWithError(primary, io_ok) ==
  LET r == mark_partial(target_dir, Unwrap(job_run.backup_name), io_ok)
  IN /\ io_ok \/ failures < MaxFailures
     /\ failures' = IF io_ok THEN failures ELSE failures + 1
     /\ target_dir' = r.dir
     /\ job_run' = [job_run EXCEPT
                      !.pc = "err",
                      !.primary = Some(primary),
                      !.rename_failed = ~r.ok,
                      !.outcome = Some(IF r.ok THEN primary
                                       ELSE "Failed to mark backup as partial")]

\* backup.rs:58 and 72-76: the copy fails
BkCopyErr ==
  /\ job_run.pc = "copying"
  /\ \E io_ok \in BOOLEAN : EndWithError("copy failed", io_ok)
  /\ UNCHANGED <<state, files>> /\ RunFrame

\* backup.rs:59-63: the token's branch of the select
BkCancelled ==
  /\ job_run.pc = "copying"
  /\ job_run.cancelled
  /\ \E io_ok \in BOOLEAN : EndWithError("Backup cancelled", io_ok)
  /\ UNCHANGED <<state, files>> /\ RunFrame

\* executor.rs:76-83
BkRecordSuccess ==
  /\ job_run.pc = "ok"
  /\ RunUpdate(UpdSuccess(Unwrap(job_run.outcome), now))
  /\ job_run' = [job_run EXCEPT !.pc = "cleanup", !.before_cleanup = Some(target_dir)]
  /\ UNCHANGED <<target_dir, failures>> /\ RunFrame

\* executor.rs:91-99: the retention cleanup succeeds
BkCleanupOk ==
  /\ job_run.pc = "cleanup"
  /\ target_dir' = cleanup_old_backups(target_dir, retention_count)
  /\ job_run' = [job_run EXCEPT !.pc = "finished", !.result = Some("ok")]
  /\ UNCHANGED <<state, files, failures>> /\ RunFrame

\* an execute_job that passes the error of the cleanup on to its caller
BkCleanupErrorReturned ==
  /\ job_run.pc = "cleanup"
  /\ failures < MaxFailures
  /\ failures' = failures + 1
  /\ job_run' = [job_run EXCEPT !.pc = "finished",
                                !.result = Some("Failed to remove old backup"),
                                !.before_cleanup = None,
                                !.cleanup_failed = TRUE]
  /\ UNCHANGED <<state, files, target_dir>> /\ RunFrame

\* executor.rs:91-99: the retention cleanup returns an error (read_dir or
\* the first removal fails), which is logged
BkCleanupFails ==
  /\ job_run.pc = "cleanup"
  /\ failures < MaxFailures
  /\ failures' = failures + 1
  /\ job_run' = [job_run EXCEPT !.pc = "finished", !.result = Some("ok"),
                                !.before_cleanup = None,
                                !.cleanup_failed = TRUE]
  /\ UNCHANGED <<state, files, target_dir>> /\ RunFrame

\* an execute_job that returns the error of the orchestrator without
\* recording it
BkRecordFailureUnrecorded ==
  /\ job_run.pc = "err"
  /\ job_run' = [job_run EXCEPT !.pc = "finished", !.result = job_run.outcome]
  /\ UNCHANGED <<state, files, target_dir, failures>> /\ RunFrame

\* executor.rs:101-114
BkRecordFailure ==
  /\ job_run.pc = "err"
  /\ RunUpdate(UpdFailed(Unwrap(job_run.outcome), now))
  /\ job_run' = [job_run EXCEPT !.pc = "finished", !.result = job_run.outcome]
  /\ UNCHANGED <<target_dir, failures>> /\ RunFrame

\* signals.rs: the root token is cancelled, and the token of the run with it
BkCancel ==
  /\ RunIsLive
  /\ ~job_run.cancelled
  /\ job_run' = [job_run EXCEPT !.cancelled = TRUE,
                                !.cancelled_in_copy = (job_run.pc = "copying")]
  /\ UNCHANGED <<state, files, target_dir, failures>> /\ RunFrame

\* daemon.rs:301-305 and 436-444: token.cancel() followed by handle.abort()
BkCancelAndAbort ==
  /\ RunIsLive
  /\ job_run' = [job_run EXCEPT
                   !.cancelled = TRUE,
                   !.cancelled_in_copy = @ \/ (~job_run.cancelled /\ job_run.pc = "copying"),
                   !.pc = "aborted"]
  /\ UNCHANGED <<state, files, target_dir, failures>> /\ RunFrame

\* the process is killed
BkCrash ==
  /\ RunIsLive
  /\ job_run' = [job_run EXCEPT !.pc = "crashed", !.crashed_at = Some(job_run.pc)]
  /\ UNCHANGED <<state, files, target_dir, failures>> /\ RunFrame

\* recovery.rs:15-28: the daemon is started again and looks for partial
\* backups in the target
BkRestart ==
  /\ job_run.pc = "crashed"
  /\ job_run' = [job_run EXCEPT !.pc = "restarted",
                                !.detected = detect_partial_backups(target_dir)]
  /\ UNCHANGED <<state, files, target_dir, failures>> /\ RunFrame

NextB ==
  \/ BkBegin
  \/ BkBeginSaveFails
  \/ BkValidationFails
  \/ BkCreateDir
  \/ BkCreateDirFails
  \/ BkCopyOk
  \/ BkCopyErr
  \/ BkCancelled
  \/ BkRecordSuccess
  \/ BkCleanupOk
  \/ BkCleanupFails
  \/ BkRecordFailure
  \/ BkCancel
  \/ BkCancelAndAbort
  \/ BkCrash
  \/ BkRestart

SpecBackup == InitB /\ [][NextB]_vars

(***************************************************************************)
(* Properties of a backup run                                              *)
(***************************************************************************)
\* the record of the job that is run
RunRecord == Unwrap(get_job(state, RunJob.id))

\* C11 as the specification states it: a run whose token was cancelled
\* while its copy was in progress has, once its task is over, its snapshot
\* directory under the _PARTIAL name, the status Failed and an error as the
\* result of execute_job
C11_CancelledCopyMarkedPartial ==
  (job_run.cancelled_in_copy /\ job_run.pc \in {"finished", "aborted"}) =>
    /\ PartialName(Unwrap(job_run.backup_name)) \in Names(target_dir)
    /\ Unwrap(job_run.backup_name) \notin Names(target_dir)
    /\ RunRecord.status.type = "failed"
    /\ IsSome(job_run.result) /\ Unwrap(job_run.result) # "ok"

\* C12 as the specification states it: within a daemon run, every snapshot
\* directory that no task is copying into either has the _PARTIAL suffix and
\* is of a run that did not complete, or has no suffix and is of a run that
\* completed
C12_SnapshotDirsMarked ==
  job_run.pc \notin {"crashed", "restarted"} =>
    \A i \in 1..Len(target_dir) :
      (/\ target_dir[i].run \in {"complete", "incomplete"}
       /\ ~(job_run.pc = "copying" /\ job_run.backup_name = Some(target_dir[i].name)))
      => (EndsWithPartial(target_dir[i].name) <=> target_dir[i].run = "incomplete")

\* C13 as the specification states it: after a crash during the copy and a
\* restart, the snapshot directory of the interrupted run is among the
\* partial backups the startup detection found and is not among the
\* directories retention counts as backups
C13_CrashedSnapshotDetected ==
  (job_run.pc = "restarted" /\ job_run.crashed_at = Some("copying")) =>
    \A i \in 1..Len(target_dir) :
      target_dir[i].run = "incomplete" =>
        /\ \E k \in 1..Len(job_run.detected) : job_run.detected[k] = target_dir[i].name
        /\ ~IsBackupCandidate(target_dir[i])

\* the entries of a listing that cleanup_old_backups counts as backups, and
\* the others
Candidates(dir) == SelectSeq(dir, IsBackupCandidate)
NonCandidates(dir) == SelectSeq(dir, LAMBDA e : ~IsBackupCandidate(e))
EntriesOf(dir) == {dir[i] : i \in 1..Len(dir)}

\* the retention cleanup of the run has returned Ok
CleanupReturnedOk ==
  job_run.pc = "finished" /\ IsSome(job_run.before_cleanup)

SixPriorRetentionThree ==
  /\ CleanupReturnedOk
  /\ retention_count = 3
  /\ Len(Candidates(Unwrap(job_run.before_cleanup))) = 6 + 1

\* the snapshots of earlier runs among the entries of a listing
PriorOf(dir) ==
  {e \in EntriesOf(Candidates(dir)) : Some(e.name) # job_run.backup_name}

\* C17 as the specification states it: the three most recent earlier
\* snapshots remain beside the new one, four in all, and the partial
\* snapshots and the .keephive entries are untouched
C17_ThreePriorPlusNew ==
  SixPriorRetentionThree =>
    /\ Len(Candidates(target_dir)) = 4
    /\ Unwrap(job_run.backup_name) \in Names(target_dir)
    /\ Cardinality(PriorOf(target_dir)) = 3
    /\ NonCandidates(target_dir) = NonCandidates(Unwrap(job_run.before_cleanup))

\* C17: with retention_count 3 and six snapshots of earlier runs in the
\* target, after a new backup three snapshot directories remain in all: the
\* new one and the two most recent earlier ones (by modification time); the
\* partial snapshots, the .keephive entries and the files are untouched.
C17_NewPlusTwoNewestPrior ==
  SixPriorRetentionThree =>
    LET before == Unwrap(job_run.before_cleanup)
        gone == PriorOf(before) \ PriorOf(target_dir)
    IN /\ Len(Candidates(target_dir)) = 3
       /\ Unwrap(job_run.backup_name) \in Names(target_dir)
       /\ Cardinality(PriorOf(target_dir)) = 2
       /\ PriorOf(target_dir) \subseteq PriorOf(before)
       /\ \A k \in PriorOf(target_dir) : \A r \in gone : k.mtime >= r.mtime
       /\ NonCandidates(target_dir) = NonCandidates(before)

\* the scenario happened in a target that also holds a partial snapshot,
\* .keephive entries and a file
C17_Witness ==
  /\ SixPriorRetentionThree
  /\ Len(NonCandidates(target_dir)) = Len(OtherEntries)
  /\ Cardinality(PriorOf(target_dir)) = 2

\* C19 as the specification states it: when the copy failed or was
\* cancelled and the rename to the _PARTIAL name failed too, the error
\* execute_job returns, and the one recorded in the Failed status, is the
\* error of the copy or of the cancellation
C19_PrimaryErrorReturned ==
  (job_run.pc = "finished" /\ job_run.rename_failed) =>
    /\ job_run.result = job_run.primary
    /\ RunRecord.status.type = "failed"
    /\ Some(RunRecord.status.error) = job_run.primary

\* the record of the job is the one of a successful run: Idle, last_run
\* set to the time of the run, last_backup the metadata execute_backup
\* returned, active_backup cleared
RecordedSuccess ==
  /\ RunRecord.status = Idle
  /\ RunRecord.last_run = Some(now)
  /\ RunRecord.last_backup = job_run.outcome
  /\ Unwrap(RunRecord.last_backup).is_complete
  /\ RunRecord.active_backup = None

\* C20: when execute_backup succeeded, the record of the job is Idle with
\* last_run, last_backup set and active_backup cleared before the retention
\* cleanup has removed anything; a cleanup that fails leaves the record so
\* and execute_job returns Ok, as does a cleanup that succeeds.
C20_SuccessRecordedBeforeCleanup ==
  /\ job_run.pc = "cleanup" =>
       RecordedSuccess /\ job_run.before_cleanup = Some(target_dir)
  /\ (job_run.pc = "finished" /\ job_run.cleanup_failed) =>
       RecordedSuccess /\ job_run.result = Some("ok")
  /\ (job_run.pc = "finished" /\ IsSome(job_run.before_cleanup)) =>
       RecordedSuccess /\ job_run.result = Some("ok")

\* a run whose cleanup failed has returned, in a target with snapshots past
\* the retention count
C20_Witness ==
  /\ job_run.pc = "finished"
  /\ job_run.cleanup_failed
  /\ RunRecord.status = Idle
  /\ Len(Candidates(target_dir)) > retention_count

\* the errors execute_backup returns
OrchestratorErrors ==
  {"Backup validation failed", "Failed to create backup directory",
   "copy failed", "Backup cancelled", "Failed to mark backup as partial"}

\* execute_job has returned after the orchestrator returned an error
ReturnedAfterOrchestratorError ==
  /\ job_run.pc = "finished"
  /\ ~job_run.save_failed
  /\ job_run.result # Some("ok")

StartTime == 2

\* the records a previous run can have left for a job: never run, run and
\* scheduled, running when the process ended, failed
LoadedRecords(id) ==
  LET new == JobStateNew(id, "src_" \o id, "tgt_" \o id)
      ran == [new EXCEPT !.last_run = Some(0), !.next_run = Some(1),
                         !.last_backup = Some(CompleteMetadata(<<"src_" \o id, "0">>, 0))]
  IN {new, ran,
      [new EXCEPT !.status = Running(1)],
      [ran EXCEPT !.status = Running(1)],
      [new EXCEPT !.status = Failed("copy failed", 1)],
      [ran EXCEPT !.status = Failed("Backup cancelled", 1)]}

\* the documents of a state file: a record for "a", for "b", for both (in
\* either order) or for neither
LoadedDocs ==
  LET lists == {<<>>} \cup {<<r>> : r \in LoadedRecords("a") \cup LoadedRecords("b")}
                \cup {<<r, q>> : r \in LoadedRecords("a"), q \in LoadedRecords("b")}
                \cup {<<q, r>> : r \in LoadedRecords("a"), q \in LoadedRecords("b")}
  IN {[version |-> STATE_SCHEMA_VERSION, last_updated |-> 1, jobs |-> js] : js \in lists}

\* the configurations the daemon is started with
StartConfigs == {<<>>, <<BaseJob("a")>>, <<BaseJob("b"), BaseJob("a")>>,
                 <<BaseJob("a"), BaseJob("a")>>}

\* ServiceDaemon::new over a state file of a previous run
InitStartup ==
  /\ state_path = DEFAULT_STATE_FILE
  /\ \E doc \in LoadedDocs :
       /\ files = [NoFiles EXCEPT ![DEFAULT_STATE_FILE] = to_json(doc)]
       /\ state = from_json(to_json(doc))
       /\ loaded = Some(state)
  /\ now = StartTime
  /\ config \in StartConfigs
  /\ running_jobs = << >>
  /\ tasks = << >>
  /\ root_cancelled = FALSE
  /\ dpc = "init"
  /\ polls = 0
  /\ reloads = 0
  /\ loop_since_cancel = FALSE
  /\ last_reload = NoReload
  /\ callers = << >>
  /\ save_mutex = 0
  /\ failures = 0
  /\ crashed = FALSE
  /\ init_call = NoCall
  /\ target_dir = << >>
  /\ job_run = NoRun
  /\ retention_count = 0
  /\ watcher = NoWatcher
  /\ pure_call = NoPure

SpecStartup == InitStartup /\ [][Startup]_vars

\* the startup sequence has run to its end
StartupDone == dpc = "running" /\ IsSome(loaded)

\* C22: after the startup sequence no record has the status Failed: every
\* record that was Failed in the loaded document is Idle, and every record
\* that was Running in it is still Running with every field as loaded.
C22_StartupResetsFailed ==
  StartupDone =>
    /\ \A i \in 1..Len(state.jobs) : state.jobs[i].status.type # "failed"
    /\ \A i \in 1..Len(Unwrap(loaded).jobs) :
         LET old == Unwrap(loaded).jobs[i]
             new == get_job(state, old.id)
         IN /\ IsSome(new)
            /\ old.status.type = "failed" => Unwrap(new).status = Idle
            /\ old.status.type = "running" => Unwrap(new) = old
    /\ from_json(files[state_path]) = state

\* the daemon started over a document with a Failed record and a Running
\* record, both of configured jobs
C22_Witness ==
  /\ StartupDone
  /\ Len(config) = 2
  /\ \E i, j \in 1..Len(Unwrap(loaded).jobs) :
       /\ Unwrap(loaded).jobs[i].status.type = "failed"
       /\ Unwrap(loaded).jobs[j].status.type = "running"
       /\ IsSome(Unwrap(loaded).jobs[j].next_run)

(***************************************************************************)
(* state/watcher.rs: the ConfigWatcher, the file-system events it is sent, *)
(* its channel to the daemon, and the daemon's end of the channel          *)
(***************************************************************************)
CONFIG_CHANGE_CHANNEL_CAPACITY == 10
FS_EVENT_CHANNEL_CAPACITY == 1000
\* file-system events of the configuration file in one run
MaxEdits == 12
\* file-system events of other files of the directory in one run
MaxOtherEvents == 1

\* mpsc::Sender::try_send on a channel of the given capacity: an error when
\* the channel is full or the receiver is gone, and the event is dropped
TrySendUnbounded(ch, capacity, ev, rx_open) ==
  [ok |-> TRUE, ch |-> Append(ch, ev)]

try_send(ch, capacity, ev, rx_open) ==
  IF rx_open /\ Len(ch) < capacity
  THEN [ok |-> TRUE, ch |-> Append(ch, ev)]
  ELSE [ok |-> FALSE, ch |-> ch]

\* ConfigWatcher::is_config_modified
is_config_modified(event) == event.ours /\ event.kind \in {"modify", "create", "remove"}

\* ConfigWatcher::new and the start of watch()
NewWatcher ==
  [pc |-> "select", notify_rx |-> <<>>, channel |-> <<>>, rx_open |-> TRUE,
   cancelled |-> FALSE, edits |-> 0, others |-> 0, dropped |-> 0,
   loaded |-> 0, received |-> 0]

InitW ==
  /\ watcher = NewWatcher
  /\ state_path = DEFAULT_STATE_FILE
  /\ state = BackupStateNew(0)
  /\ files = NoFiles
  /\ now = 0
  /\ config = InitialConfig
  /\ running_jobs = << >>
  /\ tasks = << >>
  /\ root_cancelled = FALSE
  /\ dpc = "running"
  /\ polls = 0
  /\ reloads = 0
  /\ loop_since_cancel = FALSE
  /\ last_reload = NoReload
  /\ callers = << >>
  /\ save_mutex = 0
  /\ failures = 0
  /\ crashed = FALSE
  /\ init_call = NoCall
  /\ target_dir = << >>
  /\ job_run = NoRun
  /\ retention_count = 0
  /\ loaded = None
  /\ pure_call = NoPure

WatcherFrame ==
  UNCHANGED <<state, files, state_path, daemonVars, callVars, backupVars,
              loaded, pure_call>>

\* watcher.rs:56-64: the callback of notify on a change of the
\* configuration file
ConfigFileEdited ==
  /\ watcher.pc # "none"
  /\ watcher.edits < MaxEdits
  /\ LET ev == [ours |-> TRUE, kind |-> "modify", serial |-> watcher.edits + 1]
         r == try_send(watcher.notify_rx, FS_EVENT_CHANNEL_CAPACITY, ev,
                       watcher.pc # "stopped")
     IN watcher' = [watcher EXCEPT !.notify_rx = r.ch, !.edits = @ + 1]
  /\ WatcherFrame

\* watcher.rs:56-64: the callback of notify on an event of another file of
\* the directory, or an access to the configuration file
OtherFsEvent ==
  /\ watcher.pc # "none"
  /\ watcher.others < MaxOtherEvents
  /\ \E ev \in {[ours |-> FALSE, kind |-> "modify", serial |-> 0],
                [ours |-> TRUE, kind |-> "access", serial |-> 0]} :
       LET r == try_send(watcher.notify_rx, FS_EVENT_CHANNEL_CAPACITY, ev,
                         watcher.pc # "stopped")
       IN watcher' = [watcher EXCEPT !.notify_rx = r.ch, !.others = @ + 1]
  /\ WatcherFrame

\* watcher.rs:75-76: the loop takes an event; one that is not a change of
\* the configuration file is passed over
WatcherRecv ==
  /\ watcher.pc = "select"
  /\ watcher.notify_rx # <<>>
  /\ watcher' = [watcher EXCEPT
                   !.notify_rx = Tail(@),
                   !.pc = IF is_config_modified(Head(watcher.notify_rx))
                          THEN "load_config" ELSE "select",
                   !.loaded = IF is_config_modified(Head(watcher.notify_rx))
                              THEN Head(watcher.notify_rx).serial ELSE @]
  /\ WatcherFrame

\* watcher.rs:79-85: the configuration is read and parsed, and try_send
\* hands it to the daemon or drops it
WatcherLoadOk ==
  /\ watcher.pc = "load_config"
  /\ LET r == try_send(watcher.channel, CONFIG_CHANGE_CHANNEL_CAPACITY,
                       watcher.loaded, watcher.rx_open)
     IN watcher' = [watcher EXCEPT !.channel = r.ch,
                                   !.dropped = IF r.ok THEN @ ELSE @ + 1,
                                   !.pc = "select"]
  /\ WatcherFrame

\* watcher.rs:86: the file cannot be read or parsed
WatcherLoadErr ==
  /\ watcher.pc = "load_config"
  /\ watcher' = [watcher EXCEPT !.pc = "select"]
  /\ WatcherFrame

\* watcher.rs:92-95: the token is cancelled and the loop ends
WatcherCancelled ==
  /\ watcher.pc = "select"
  /\ watcher.cancelled
  /\ watcher' = [watcher EXCEPT !.pc = "stopped", !.notify_rx = <<>>]
  /\ WatcherFrame

\* signals.rs: the shutdown signal cancels the token
WatcherSignal ==
  /\ watcher.pc # "none"
  /\ ~watcher.cancelled
  /\ watcher' = [watcher EXCEPT !.cancelled = TRUE]
  /\ WatcherFrame

\* daemon.rs:119: the main loop takes an event from the channel, whenever
\* it gets to it
DaemonRecv ==
  /\ watcher.pc # "none"
  /\ watcher.rx_open
  /\ watcher.channel # <<>>
  /\ watcher' = [watcher EXCEPT !.channel = Tail(@),
                                !.received = Head(watcher.channel)]
  /\ WatcherFrame

\* daemon.rs:114-132: run() returns and config_rx is dropped with what it
\* holds
DaemonReturns ==
  /\ watcher.pc # "none"
  /\ watcher.rx_open
  /\ watcher' = [watcher EXCEPT !.rx_open = FALSE, !.channel = <<>>]
  /\ WatcherFrame

NextW ==
  \/ ConfigFileEdited
  \/ OtherFsEvent
  \/ WatcherRecv
  \/ WatcherLoadOk
  \/ WatcherLoadErr
  \/ WatcherCancelled
  \/ WatcherSignal
  \/ DaemonRecv
  \/ DaemonReturns

SpecWatcher == InitW /\ [][NextW]_vars

\* C24 (first half): the channel from the watcher to the daemon holds at
\* most 10 events.
C24_ChannelBounded == Len(watcher.channel) <= 10

\* C24: the channel never holds more than 10 events, and the watcher never
\* waits on it: from the point where it loads a configuration its next
\* step leaves it at the select of its loop with the file-system events
\* that wait for it; with the channel full that step leaves the channel as
\* it was, and an event is dropped only when the channel is full or the
\* receiver is gone.
C24_WatcherNeverBlocks ==
  /\ [](C24_ChannelBounded)
  /\ [][(watcher.pc = "load_config" /\ watcher'.pc # watcher.pc) =>
          /\ watcher'.pc = "select"
          /\ watcher'.notify_rx = watcher.notify_rx
          /\ Len(watcher.channel) = 10 => watcher'.channel = watcher.channel
          /\ watcher'.channel # watcher.channel =>
               /\ watcher'.channel = Append(watcher.channel, watcher.loaded)
               /\ watcher'.dropped = watcher.dropped
          /\ watcher'.dropped # watcher.dropped =>
               /\ watcher'.dropped = watcher.dropped + 1
               /\ Len(watcher.channel) = 10 \/ ~watcher.rx_open]_vars

\* the channel is full, the watcher has dropped an event, and it is at its
\* select with the next file-system event waiting
C24_Witness ==
  /\ Len(watcher.channel) = 10
  /\ watcher.dropped > 0
  /\ watcher.rx_open
  /\ watcher.pc = "select"
  /\ watcher.notify_rx # <<>>

(***************************************************************************)
(* The Running status and the start of the orchestrator                    *)
(***************************************************************************)
\* the state file holds the record of the job with the status Running and
\* the source and target the job is configured with
RunningOnDisk ==
  /\ ParsesOk(files[state_path])
  /\ LET js == get_job(from_json(files[state_path]), RunJob.id)
     IN /\ IsSome(js)
        /\ Unwrap(js).status.type = "running"
        /\ Unwrap(js).source = RunJob.source
        /\ Unwrap(js).target = RunJob.target

\* C28: as long as the orchestrator is at work or has just returned, the
\* state file holds the job as Running with its current source and target;
\* a run whose save of the Running status failed has returned that error
\* with the orchestrator not invoked (no backup name, no outcome)
C28_RunningOnDiskWhileOrchestrated ==
  /\ job_run.pc \in {"starting", "copying", "ok", "err"} => RunningOnDisk
  /\ job_run.save_failed =>
       /\ job_run.pc = "finished"
       /\ job_run.backup_name = None
       /\ job_run.outcome = None
       /\ job_run.result # Some("ok")

\* C28: execute_job persists the transition to Running before the
\* orchestrator is invoked: the step that creates the snapshot directory of
\* the run is taken with the Running status of the job in the state file,
\* and no run whose save failed gets as far as the orchestrator
C28_RunningPersistedFirst ==
  /\ [](C28_RunningOnDiskWhileOrchestrated)
  /\ [][(job_run.pc # "none" /\ job_run.backup_name = None
           /\ job_run'.backup_name # None)
          => (RunningOnDisk /\ target_dir' # target_dir)]_vars

\* C28 happens: the snapshot directory of the run exists, the copy is in
\* progress and the state file says Running with the paths of the job
C28_Witness ==
  /\ job_run.pc = "copying"
  /\ job_run.backup_name # None
  /\ \E i \in 1..Len(target_dir) : target_dir[i].name = Unwrap(job_run.backup_name)
  /\ RunningOnDisk

(***************************************************************************)
(* scheduler/engine.rs: calculate_next_runs, called by                     *)
(* handle_config_change for every configured job, one step at a time       *)
(* beside the tasks of the jobs the last tick started                      *)
(***************************************************************************)
\* the time of the reload
ReloadTime == 1

\* the tasks of jobs a and b, and the daemon inside calculate_next_runs
JobTasks == 1..2
Scheduling == 3

\* the document after startup: every job Idle and due
StartedDoc ==
  calculate_next_runs(SaveState([state |-> InitialDoc, files |-> NoFiles],
                                DEFAULT_STATE_FILE),
                      DEFAULT_STATE_FILE, InitialConfig, 0).state

\* a task that is about to call update_job_state for the k-th time, or the
\* daemon about to read the record of the k-th job
NewParty == [pc |-> "ready", k |-> 1, last_run |-> None, snapshot |-> None]

InitCalc ==
  /\ state_path = DEFAULT_STATE_FILE
  /\ state = StartedDoc
  /\ files = [NoFiles EXCEPT ![DEFAULT_STATE_FILE] = to_json(StartedDoc)]
  /\ callers = [c \in JobTasks \cup {Scheduling} |->
                  IF c \in JobTasks THEN NewParty
                  ELSE [NewParty EXCEPT !.pc = "read"]]
  /\ save_mutex = 0
  /\ now = ReloadTime
  /\ config = InitialConfig
  /\ failures = 0
  /\ crashed = FALSE
  /\ init_call = NoCall
  /\ target_dir = << >>
  /\ job_run = NoRun
  /\ retention_count = 0
  /\ loaded = None
  /\ watcher = NoWatcher
  /\ pure_call = NoPure
  /\ running_jobs = << >>
  /\ tasks = << >>
  /\ root_cancelled = FALSE
  /\ dpc = "running"
  /\ polls = 0
  /\ reloads = 0
  /\ loop_since_cancel = FALSE
  /\ last_reload = NoReload

CalcFrame ==
  UNCHANGED <<state_path, failures, crashed, daemonVars, init_call,
              backupVars, extraVars>>

\* the job a party is concerned with: a task with its own, the daemon with
\* the k-th of the list calculate_next_runs was given
PartyJob(c) == IF c \in JobTasks THEN config[c] ELSE config[callers[c].k]

\* the closure a party hands to update_job_state: execute_job the Running
\* status and then the result of the run (executor.rs:59-65, 78-83),
\* calculate_next_runs the next run (engine.rs:37-40)
PartyUpdater(c) ==
  IF c \in JobTasks
  THEN IF callers[c].k = 1
       THEN UpdRunning(PartyJob(c), now)
       ELSE UpdSuccess(CompleteMetadata(SnapshotName(PartyJob(c).source, now), now), now)
  ELSE UpdNextRun(now + next_run_duration(PartyJob(c).schedule,
                                          callers[c].last_run, now))

\* engine.rs:20-31: the read-locked block of one turn of the loop and the
\* test that follows; a job whose status is Running is skipped
CalcReadStatus ==
  /\ callers[Scheduling].pc = "read"
  /\ LET job == PartyJob(Scheduling)
         job_state == get_job(state, job.id)
         last_run == IF IsSome(job_state) THEN Unwrap(job_state).last_run ELSE None
         is_running == IsSome(job_state) /\ Unwrap(job_state).status.type = "running"
     IN callers' =
          [callers EXCEPT
             ![Scheduling] =
                IF is_running
                THEN [@ EXCEPT !.k = @ + 1,
                               !.pc = IF callers[Scheduling].k = Len(config)
                                      THEN "returned" ELSE "read"]
                ELSE [@ EXCEPT !.pc = "ready", !.last_run = last_run]]
  /\ UNCHANGED <<state, files, save_mutex>> /\ CalcFrame

\* manager.rs:109: update_job_state gets the save mutex
CalcMutexLock(c) ==
  /\ callers[c].pc = "ready"
  /\ MutexLock(save_mutex, c).acquired
  /\ save_mutex' = MutexLock(save_mutex, c).mutex
  /\ callers' = [callers EXCEPT ![c].pc = "locked"]
  /\ UNCHANGED <<state, files>> /\ CalcFrame

\* manager.rs:112-123: the write-locked block
CalcWriteLockMutate(c) ==
  /\ callers[c].pc = "locked"
  /\ LET r == MutateAndSnapshot(state, PartyJob(c).id, PartyUpdater(c), now)
     IN /\ state' = r.state
        /\ callers' = [callers EXCEPT ![c].pc = "snapshot",
                                      ![c].snapshot = Some(r.snapshot)]
  /\ UNCHANGED <<files, save_mutex>> /\ CalcFrame

\* manager.rs:127-129: the snapshot is saved and the guard dropped; the
\* task goes on to the copy or is over, the daemon to its next job
CalcSaveAndReturn(c) ==
  /\ callers[c].pc = "snapshot"
  /\ files' = SaveStateAtomic(files, state_path, Unwrap(callers[c].snapshot))
  /\ save_mutex' = MutexUnlock(save_mutex, c)
  /\ callers' =
       [callers EXCEPT
          ![c] = [@ EXCEPT
                    !.snapshot = None,
                    !.last_run = None,
                    !.k = @ + 1,
                    !.pc = IF c \in JobTasks
                           THEN (IF callers[c].k = 1 THEN "copying" ELSE "finished")
                           ELSE (IF callers[c].k = Len(config)
                                 THEN "returned" ELSE "read")]]
  /\ UNCHANGED state /\ CalcFrame

\* executor.rs:68-76: execute_backup returns Ok
CalcBackupDone(c) ==
  /\ c \in JobTasks
  /\ callers[c].pc = "copying"
  /\ callers' = [callers EXCEPT ![c].pc = "ready"]
  /\ UNCHANGED <<state, files, save_mutex>> /\ CalcFrame

NextCalc ==
  \/ CalcReadStatus
  \/ \E c \in JobTasks \cup {Scheduling} :
       \/ CalcMutexLock(c)
       \/ CalcWriteLockMutate(c)
       \/ CalcSaveAndReturn(c)
       \/ CalcBackupDone(c)

SpecCalc == InitCalc /\ [][NextCalc]_vars

\* the status of the record of a job is Running
IsRunningRecord(doc, id) ==
  IsSome(get_job(doc, id)) /\ Unwrap(get_job(doc, id)).status.type = "running"

\* C29 as the specification states it: no step of calculate_next_runs
\* changes a record whose status is Running when the step is taken; it never
\* writes next_run into such a record, whatever the tasks of the jobs do in
\* between
C29_RunningNeverRescheduled ==
  [][(DOMAIN callers = JobTasks \cup {Scheduling}
        /\ callers'[Scheduling] # callers[Scheduling]) =>
       \A id \in JobIds :
         IsRunningRecord(state, id) => get_job(state', id) = get_job(state, id)]_vars

(***************************************************************************)
(* Functions of the program called on arguments of every shape             *)
(***************************************************************************)
\* every variable but pure_call at rest
NothingRuns ==
  /\ state_path = DEFAULT_STATE_FILE
  /\ state = BackupStateNew(0)
  /\ files = NoFiles
  /\ now = 0
  /\ config = InitialConfig
  /\ running_jobs = << >>
  /\ tasks = << >>
  /\ root_cancelled = FALSE
  /\ dpc = "running"
  /\ polls = 0
  /\ reloads = 0
  /\ loop_since_cancel = FALSE
  /\ last_reload = NoReload
  /\ callers = << >>
  /\ save_mutex = 0
  /\ failures = 0
  /\ crashed = FALSE
  /\ init_call = NoCall
  /\ target_dir = << >>
  /\ job_run = NoRun
  /\ retention_count = 0
  /\ loaded = None
  /\ watcher = NoWatcher

PureFrame ==
  UNCHANGED <<state, files, state_path, daemonVars, callVars, backupVars,
              loaded, watcher>>

(***************************************************************************)
(* core/backup.rs: sanitize_backup_name.  A name is the sequence of its    *)
(* characters.                                                             *)
(***************************************************************************)
\* longest name handed to sanitize_backup_name
MaxNameLen == 4
\* backup.rs:159: take(255)
FILENAME_LIMIT == 255

\* the characters names are made of: dot, space, underscore, a character
\* Windows forbids, a control character, and the letters of "con" with an
\* upper-case C
NameAlphabet == {".", " ", "_", ":", "\t", "c", "o", "n", "C"}
NameInputs == UNION {[1..n -> NameAlphabet] : n \in 0..MaxNameLen}

ForbiddenChars == {"/", "\\", "<", ">", ":", "\"", "|", "?", "*"}
\* char::is_control, for the characters of the alphabet (the null byte
\* with them)
ControlChars == {"\t", "\n", "\r", "\f"}

\* platform/windows/constants.rs:1-7, which config::models::WINDOWS_RESERVED
\* names
WINDOWS_RESERVED ==
  {<<"a", "u", "x">>, <<"c", "o", "n">>, <<"n", "u", "l">>, <<"p", "r", "n">>}
  \cup {<<"c", "o", "m", d>> : d \in {"0", "1", "2", "3", "4", "5", "6", "7", "8", "9"}}
  \cup {<<"l", "p", "t", d>> : d \in {"0", "1", "2", "3", "4", "5", "6", "7", "8", "9"}}

\* str::starts_with(char), str::ends_with(char)
StartsWithChar(name, c) == Len(name) > 0 /\ name[1] = c
EndsWithChar(name, c) == Len(name) > 0 /\ name[Len(name)] = c

\* backup.rs:142-155: the match of the map over the characters of name
SanitizeChar(c, name) ==
  IF c \in ForbiddenChars \cup ControlChars THEN "_"
  ELSE IF c \in {".", " "} /\ (StartsWithChar(name, c) \/ EndsWithChar(name, c))
  THEN "_"
  ELSE c

\* str::trim_matches(c)
RECURSIVE TrimStart(_, _)
TrimStart(str, c) ==
  IF str # <<>> /\ Head(str) = c THEN TrimStart(Tail(str), c) ELSE str
RECURSIVE TrimEnd(_, _)
TrimEnd(str, c) ==
  IF str # <<>> /\ str[Len(str)] = c
  THEN TrimEnd(SubSeq(str, 1, Len(str) - 1), c) ELSE str
trim_matches(str, c) == TrimEnd(TrimStart(str, c), c)

\* chars().take(n)
Take(str, n) == SubSeq(str, 1, IF Len(str) < n THEN Len(str) ELSE n)

\* split('.').next(): what comes before the first dot
RECURSIVE BeforeFirstDot(_)
BeforeFirstDot(str) ==
  IF str = <<>> \/ Head(str) = "." THEN <<>>
  ELSE <<Head(str)>> \o BeforeFirstDot(Tail(str))

\* char::to_lowercase for the characters of the alphabet
LowerChar(c) == IF c = "C" THEN "c" ELSE c
to_lowercase(str) == [k \in 1..Len(str) |-> LowerChar(str[k])]

\* BackupOrchestrator::sanitize_backup_name
sanitize_backup_name(name) ==
  LET mapped == [k \in 1..Len(name) |-> SanitizeChar(name[k], name)]
      sanitized == Take(trim_matches(mapped, "_"), FILENAME_LIMIT)
      base_name == to_lowercase(BeforeFirstDot(sanitized))
  IN IF sanitized = <<>> THEN <<"b", "a", "c", "k", "u", "p">>
     ELSE IF base_name \in WINDOWS_RESERVED THEN <<"_">> \o sanitized
     ELSE sanitized

InitSanitize ==
  /\ NothingRuns
  /\ \E x \in NameInputs :
       pure_call = [fn |-> "sanitize_backup_name", pc |-> "called", x |-> x,
                    once |-> <<>>, twice |-> <<>>]

\* generate_backup_name sanitizes the name of the source
SanitizeName ==
  /\ pure_call.fn = "sanitize_backup_name"
  /\ pure_call.pc = "called"
  /\ pure_call' = [pure_call EXCEPT !.pc = "once",
                                    !.once = sanitize_backup_name(pure_call.x)]
  /\ PureFrame

\* the result is the name of a source that is sanitized in its turn
SanitizeAgain ==
  /\ pure_call.fn = "sanitize_backup_name"
  /\ pure_call.pc = "once"
  /\ pure_call' = [pure_call EXCEPT !.pc = "twice",
                                    !.twice = sanitize_backup_name(pure_call.once)]
  /\ PureFrame

NextSanitize == SanitizeName \/ SanitizeAgain

SpecSanitize == InitSanitize /\ [][NextSanitize]_vars

\* C25 as the specification states it: sanitize_backup_name applied to its
\* own result gives that result again
C25_SanitizeIdempotent ==
  (pure_call.fn = "sanitize_backup_name" /\ pure_call.pc = "twice") =>
    pure_call.twice = pure_call.once

(***************************************************************************)
(* config/models.rs: Schedule::calculate_next_daily.  Times are counted    *)
(* in milliseconds; a local time is a day (0 is today) and a time of day,  *)
(* an instant is a count of milliseconds on the UTC line.                  *)
(***************************************************************************)
MILLIS_PER_SECOND == 1000
MILLIS_PER_HOUR == 3600 * MILLIS_PER_SECOND
\* Duration::days(1)
MILLIS_PER_DAY == 24 * MILLIS_PER_HOUR

\* and_hms_opt(hour, minute, second), with a fraction for Local::now()
Hms(hour, minute, second, millis) ==
  hour * MILLIS_PER_HOUR + minute * 60 * MILLIS_PER_SECOND
    + second * MILLIS_PER_SECOND + millis

\* the hours and minutes of the Daily schedules called with
DailyHours == {0, 2, 23}
DailyMinutes == {0, 30, 59}
\* the times of day of Local::now()
NowHours == {0, 1, 2, 3, 4, 23}
NowMinutes == {0, 30, 59}
NowSeconds == {0, 1, 59}
NowMillis == {0, 500}
NowTimes == {Hms(h, m, sec, ms) : h \in NowHours, m \in NowMinutes,
                                  sec \in NowSeconds, ms \in NowMillis}

\* what Local is on the machine: a zone of one offset all year, or a zone
\* whose clocks go from 02:00 to 03:00 (spring) or from 03:00 back to 02:00
\* (fall) on day `day`
LocalZones ==
  {[kind |-> "fixed", day |-> 0]}
  \cup [kind : {"spring", "fall"}, day : {0, 1}]

\* the offset from UTC before and after the clocks change
OffsetBefore(zone) == IF zone.kind = "fall" THEN MILLIS_PER_HOUR ELSE 0
OffsetAfter(zone) == IF zone.kind = "spring" THEN MILLIS_PER_HOUR ELSE 0

\* TimeZone::from_local_datetime of Local: the instants a local time names
from_local_datetime(zone, day, tod) ==
  LET line == day * MILLIS_PER_DAY + tod IN
  IF zone.kind = "fixed" THEN {line}
  ELSE IF day < zone.day \/ (day = zone.day /\ tod < 2 * MILLIS_PER_HOUR)
  THEN {line - OffsetBefore(zone)}
  ELSE IF day > zone.day \/ tod >= 3 * MILLIS_PER_HOUR
  THEN {line - OffsetAfter(zone)}
  ELSE IF zone.kind = "spring" THEN {}
  ELSE {line - OffsetBefore(zone), line - OffsetAfter(zone)}

\* Schedule::calculate_next_daily; now is Local::now(), the time of day it
\* shows and the instant it is.  LocalResult::unwrap panics unless the
\* local time names one instant.
calculate_next_daily(hour, minute, last_run, now_tod, now_instant, zone) ==
  LET today_scheduled == Hms(hour, minute, 0, 0)
      next_day == IF now_tod < today_scheduled THEN 0 ELSE 1
      next_datetime == from_local_datetime(zone, next_day, today_scheduled)
  IN IF Cardinality(next_datetime) # 1
     THEN [panicked |-> TRUE, duration |-> 0]
     ELSE [panicked |-> FALSE,
           duration |-> (CHOOSE u \in next_datetime : TRUE) - now_instant]

LastRuns == {None, Some(0), Some(1)}

InitDaily ==
  /\ NothingRuns
  /\ \E hour \in DailyHours, minute \in DailyMinutes, last_run \in LastRuns,
        zone \in LocalZones, now_tod \in NowTimes :
       \E now_instant \in from_local_datetime(zone, 0, now_tod) :
         pure_call = [fn |-> "next_run_duration", pc |-> "called",
                      hour |-> hour, minute |-> minute, last_run |-> last_run,
                      zone |-> zone, now_tod |-> now_tod,
                      now_instant |-> now_instant,
                      result |-> [panicked |-> FALSE, duration |-> 0]]

\* Schedule::next_run_duration, Daily arm
NextRunDurationDaily ==
  /\ pure_call.fn = "next_run_duration"
  /\ pure_call.pc = "called"
  /\ pure_call' =
       [pure_call EXCEPT
          !.pc = "returned",
          !.result = calculate_next_daily(pure_call.hour, pure_call.minute,
                        pure_call.last_run, pure_call.now_tod,
                        pure_call.now_instant, pure_call.zone)]
  /\ PureFrame

NextDaily == NextRunDurationDaily

SpecDaily == InitDaily /\ [][NextDaily]_vars

DailyReturned ==
  pure_call.fn = "next_run_duration" /\ pure_call.pc = "returned"

\* C26 as the specification states it: a Daily schedule gives a duration
\* for every time of day, positive and at most 24 hours; Daily{2,0} gives
\* one minute at 01:59:00 and 23h59m59s at 02:00:01
C26_DailyWithinADay ==
  DailyReturned =>
    /\ ~pure_call.result.panicked
    /\ pure_call.result.duration > 0
    /\ pure_call.result.duration <= MILLIS_PER_DAY
    /\ (pure_call.hour = 2 /\ pure_call.minute = 0
          /\ pure_call.now_tod = Hms(1, 59, 0, 0))
         => pure_call.result.duration = 60 * MILLIS_PER_SECOND
    /\ (pure_call.hour = 2 /\ pure_call.minute = 0
          /\ pure_call.now_tod = Hms(2, 0, 1, 0))
         => pure_call.result.duration = Hms(23, 59, 59, 0)

(***************************************************************************)
(* The restart of a job whose paths a hot-reload changed                   *)
(***************************************************************************)
PathChangeErrors == {"Backup cancelled due to source/target path change",
                     "Backup cancelled due to configuration change"}

\* the record of the job says that a hot-reload cancelled its run for a
\* change of its paths, the job is configured with the paths of the record,
\* no task of it is in the table, and its next run is due at time t
CancelledForPathChange(job, t) ==
  /\ \E k \in 1..Len(config) : config[k] = job
  /\ job.id \notin DOMAIN running_jobs
  /\ IsSome(get_job(state, job.id))
  /\ LET js == Unwrap(get_job(state, job.id))
     IN /\ js.status.type = "failed"
        /\ js.status.error \in PathChangeErrors
        /\ js.source = job.source
        /\ js.target = job.target
        /\ (IsSome(js.next_run) => Unwrap(js.next_run) <= t)

\* a turn of the daemon loop in which process_jobs ran and returned
IsTickStep == dpc = "running" /\ dpc' = "running" /\ now' = now + 1

\* C27 as the specification states it: a job whose run a hot-reload
\* cancelled for a change of its source or target is started again, with the
\* new paths, by the tick at which its next run is due
C27_RestartedAfterPathChange ==
  [][IsTickStep =>
       \A job \in JobPool :
         CancelledForPathChange(job, now') =>
           /\ job.id \in DOMAIN running_jobs'
           /\ tasks'[running_jobs'[job.id]].job = job]_vars


(***************************************************************************)
(* scheduler/engine.rs: get_ready_jobs over the documents and the job      *)
(* lists it can be called with                                             *)
(***************************************************************************)
\* the latest time get_ready_jobs is called at; the records hold next_run 1
MaxReadyTime == 2

\* the job lists get_ready_jobs is given
ReadyConfigs == {<<>>, <<BaseJob("a")>>, <<BaseJob("a"), BaseJob("b")>>,
                 <<BaseJob("b"), BaseJob("a")>>}

InitReady ==
  /\ state_path = DEFAULT_STATE_FILE
  /\ \E doc \in LoadedDocs :
       /\ files = [NoFiles EXCEPT ![DEFAULT_STATE_FILE] = to_json(doc)]
       /\ state = doc
       /\ loaded = Some(doc)
  /\ now \in 0..MaxReadyTime
  /\ config \in ReadyConfigs
  /\ pure_call = [fn |-> "get_ready_jobs", pc |-> "called", ready_jobs |-> <<>>]
  /\ running_jobs = << >>
  /\ tasks = << >>
  /\ root_cancelled = FALSE
  /\ dpc = "running"
  /\ polls = 0
  /\ reloads = 0
  /\ loop_since_cancel = FALSE
  /\ last_reload = NoReload
  /\ callers = << >>
  /\ save_mutex = 0
  /\ failures = 0
  /\ crashed = FALSE
  /\ init_call = NoCall
  /\ target_dir = << >>
  /\ job_run = NoRun
  /\ retention_count = 0
  /\ watcher = NoWatcher

\* Scheduler::get_ready_jobs: the document is read under the read lock
GetReadyJobs ==
  /\ pure_call.fn = "get_ready_jobs"
  /\ pure_call.pc = "called"
  /\ pure_call' = [pure_call EXCEPT !.pc = "returned",
                                    !.ready_jobs = get_ready_jobs(state, config, now)]
  /\ UNCHANGED <<state, files, state_path, daemonVars, callVars, backupVars,
                 loaded, watcher>>

NextReady == GetReadyJobs

SpecReady == InitReady /\ [][NextReady]_vars

\* every record the document holds under the id of the job is Idle with
\* next_run absent or not later than t (so a job without a record is due)
DueByRecords(doc, job, t) ==
  \A i \in 1..Len(doc.jobs) :
    doc.jobs[i].id = job.id =>
      /\ doc.jobs[i].status = Idle
      /\ (doc.jobs[i].next_run = None \/ Unwrap(doc.jobs[i].next_run) <= t)

ReadyReturned == pure_call.fn = "get_ready_jobs" /\ pure_call.pc = "returned"

\* C30: get_ready_jobs returns, in the order of the configuration, exactly
\* the configured jobs that have no record or an Idle record with next_run
\* absent or not later than now; no job it returns has a Running or Failed
\* record, and the document and the state file are as they were
C30_ReadyJobsAreTheDueIdleOnes ==
  ReadyReturned =>
    LET ready == pure_call.ready_jobs
        due == {i \in 1..Len(config) : DueByRecords(state, config[i], now)}
    IN /\ Len(ready) = Cardinality(due)
       /\ \E f \in [1..Len(ready) -> due] :
            /\ \A k \in 1..Len(ready) : ready[k] = config[f[k]]
            /\ \A k, l \in 1..Len(ready) : k < l => f[k] < f[l]
       /\ \A k \in 1..Len(ready) :
            \A i \in 1..Len(state.jobs) :
              state.jobs[i].id = ready[k].id =>
                state.jobs[i].status.type \notin {"running", "failed"}
       /\ state = Unwrap(loaded)
       /\ files[state_path] = to_json(Unwrap(loaded))

\* C30 happens: of the two configured jobs the first has a Failed record
\* that is due and the second an Idle one that is due; the second alone is
\* returned
C30_Witness ==
  /\ ReadyReturned
  /\ config = <<BaseJob("b"), BaseJob("a")>>
  /\ pure_call.ready_jobs = <<BaseJob("a")>>
  /\ IsSome(get_job(state, "b"))
  /\ Unwrap(get_job(state, "b")).status.type = "failed"
  /\ Unwrap(get_job(state, "b")).next_run = None
  /\ IsSome(get_job(state, "a"))
  /\ Unwrap(get_job(state, "a")).next_run = Some(now)

(***************************************************************************)
(* scheduler/engine.rs: detect_config_changes over pairs of job lists      *)
(* with unique ids; the jobs carry their description here                  *)
(***************************************************************************)
\* the longest job list detect_config_changes is given
MaxDetectJobs == 2

\* BackupJob with its description
Described(job, description) ==
  [id |-> job.id, source |-> job.source, target |-> job.target,
   schedule |-> job.schedule, description |-> description]

\* job "a" in every variant and with another description, "b" with one
\* description or another, and "c"
DetectPool ==
  {Described(j, "") : j \in JobVariants("a")}
  \cup {Described(BaseJob("a"), "nightly"), Described(BaseJob("b"), ""),
        Described(BaseJob("b"), "nightly"), Described(BaseJob("c"), "")}

\* the job lists whose ids are unique
DetectLists ==
  {l \in UNION {[1..n -> DetectPool] : n \in 0..MaxDetectJobs} :
     \A i, k \in 1..Len(l) : i # k => l[i].id # l[k].id}

InitDetect ==
  /\ NothingRuns
  /\ \E old_jobs \in DetectLists, new_jobs \in DetectLists :
       pure_call = [fn |-> "detect_config_changes", pc |-> "called",
                    old_jobs |-> old_jobs, new_jobs |-> new_jobs,
                    changes |-> [added |-> <<>>, removed |-> <<>>,
                                 modified |-> <<>>]]

\* Scheduler::detect_config_changes
DetectConfigChanges ==
  /\ pure_call.fn = "detect_config_changes"
  /\ pure_call.pc = "called"
  /\ pure_call' = [pure_call EXCEPT
                     !.pc = "returned",
                     !.changes = detect_config_changes(pure_call.old_jobs,
                                                       pure_call.new_jobs)]
  /\ PureFrame

NextDetect == DetectConfigChanges

SpecDetect == InitDetect /\ [][NextDetect]_vars

DetectReturned ==
  pure_call.fn = "detect_config_changes" /\ pure_call.pc = "returned"

IdsOf(jobs) == {jobs[i].id : i \in 1..Len(jobs)}
\* the job a list of unique ids holds under an id
JobWithId(jobs, id) == CHOOSE j \in {jobs[i] : i \in 1..Len(jobs)} : j.id = id

\* C31: for job lists with unique ids, added holds the new jobs whose id
\* the old list lacks, removed the ids of the old list the new one lacks,
\* modified the jobs of both lists whose source, target or schedule differ,
\* each with its change type; a job that differs in its description alone is
\* in none of them, and no id is in two of them or twice in one
C31_ChangesClassified ==
  DetectReturned =>
    LET old_jobs == pure_call.old_jobs
        new_jobs == pure_call.new_jobs
        added == pure_call.changes.added
        removed == pure_call.changes.removed
        modified == pure_call.changes.modified
        modified_ids == {modified[i].job.id : i \in 1..Len(modified)}
    IN /\ {added[i] : i \in 1..Len(added)} =
            {j \in {new_jobs[i] : i \in 1..Len(new_jobs)} : j.id \notin IdsOf(old_jobs)}
       /\ {removed[i] : i \in 1..Len(removed)} = IdsOf(old_jobs) \ IdsOf(new_jobs)
       /\ Len(added) = Cardinality(IdsOf(added))
       /\ Len(removed) = Cardinality({removed[i] : i \in 1..Len(removed)})
       /\ Len(modified) = Cardinality(modified_ids)
       /\ \A id \in IdsOf(old_jobs) \cap IdsOf(new_jobs) :
            LET o == JobWithId(old_jobs, id)
                n == JobWithId(new_jobs, id)
                schedule_differs == n.schedule # o.schedule
                path_differs == n.source # o.source \/ n.target # o.target
                kind == IF schedule_differs /\ path_differs THEN "PathAndSchedule"
                        ELSE IF path_differs THEN "PathChanged"
                        ELSE "ScheduleOnly"
            IN IF schedule_differs \/ path_differs
               THEN \E i \in 1..Len(modified) :
                      modified[i] = [job |-> n, change_type |-> kind]
               ELSE id \notin modified_ids
       /\ modified_ids \subseteq IdsOf(old_jobs) \cap IdsOf(new_jobs)
       /\ IdsOf(added) \cap modified_ids = {}
       /\ IdsOf(added) \cap {removed[i] : i \in 1..Len(removed)} = {}
       /\ modified_ids \cap {removed[i] : i \in 1..Len(removed)} = {}

\* C31 happens: of jobs a and b, a comes back with another target and
\* schedule, b is gone and c is new
C31_Witness ==
  /\ DetectReturned
  /\ Len(pure_call.changes.added) = 1
  /\ pure_call.changes.added[1].id = "c"
  /\ pure_call.changes.removed = <<"b">>
  /\ Len(pure_call.changes.modified) = 1
  /\ pure_call.changes.modified[1].change_type = "PathAndSchedule"
  /\ pure_call.changes.modified[1].job.target = "tgt_x"

(***************************************************************************)
(* What a tick does                                                        *)
(***************************************************************************)
\* the ids whose task in the table has finished
CompletedIds == {id \in DOMAIN running_jobs : IsFinished(tasks[running_jobs[id]])}

\* the tasks a step has spawned
SpawnedTasks == (Len(tasks) + 1)..Len(tasks')

ShutdownDone ==
  /\ dpc = "stopped"
  /\ running_jobs = << >>
  /\ ParsesOk(files[state_path])
  /\ from_json(files[state_path]) = state

\* C33 as the specification states it, for the runs that have ended: once
\* the root token is cancelled, run() returns only through the shutdown
\* branch, with the table emptied by shutdown_gracefully and the final save
\* made
C33_ShutdownTerminates ==
  (root_cancelled /\ dpc \in {"stopped", "failed"}) => ShutdownDone

(***************************************************************************)
(* Records and the running-jobs table                                      *)
(***************************************************************************)
\* C34 as the specification implies it: whenever the record of a job has
\* the status Running, the running-jobs table holds a task under that id
\* that has not ended
C34_RunningHasTask ==
  \A i \in 1..Len(state.jobs) :
    state.jobs[i].status.type = "running" =>
      /\ state.jobs[i].id \in DOMAIN running_jobs
      /\ ~IsFinished(tasks[running_jobs[state.jobs[i].id]])

\* the record of the job in the document has the status Failed
IsFailedRecord(doc, id) ==
  IsSome(get_job(doc, id)) /\ Unwrap(get_job(doc, id)).status.type = "failed"

TICK_SECONDS == 5

Daily(hour, minute) == [type |-> "daily", hour |-> hour, minute |-> minute]
Weekly(day, hour, minute) ==
  [type |-> "weekly", day |-> day, hour |-> hour, minute |-> minute]

FixedZone == [kind |-> "fixed", day |-> 0]

\* Schedule::calculate_next_weekly at the local time (weekday, time of day)
calculate_next_weekly(day, hour, minute, last_run, current_weekday, now_tod, zone) ==
  LET now_hour == now_tod \div MILLIS_PER_HOUR
      now_minute == (now_tod % MILLIS_PER_HOUR) \div (60 * MILLIS_PER_SECOND)
      target_time_passed ==
        now_hour > hour \/ (now_hour = hour /\ now_minute >= minute)
      days_until ==
        IF current_weekday < day THEN day - current_weekday
        ELSE IF current_weekday = day
        THEN (IF target_time_passed THEN 7 ELSE 0)
        ELSE 7 - (current_weekday - day)
      next == from_local_datetime(zone, days_until, Hms(hour, minute, 0, 0))
  IN IF Cardinality(next) # 1
     THEN [panicked |-> TRUE, duration |-> 0]
     ELSE [panicked |-> FALSE, duration |-> (CHOOSE u \in next : TRUE) - now_tod]

\* now.weekday().num_days_from_monday() + 1
WeekdayOf(t) == ((t \div MILLIS_PER_DAY) % 7) + 1

\* Schedule::next_run_duration at the instant t, the three arms
NextRunDurationAt(schedule, last_run, t) ==
  CASE schedule.type = "interval" ->
         LET interval == schedule.seconds * MILLIS_PER_SECOND IN
         IF IsSome(last_run)
         THEN (IF t - Unwrap(last_run) >= interval THEN 0
               ELSE interval - (t - Unwrap(last_run)))
         ELSE 0
    [] schedule.type = "daily" ->
         calculate_next_daily(schedule.hour, schedule.minute, last_run,
                              t % MILLIS_PER_DAY, t % MILLIS_PER_DAY,
                              FixedZone).duration
    [] schedule.type = "weekly" ->
         calculate_next_weekly(schedule.day, schedule.hour, schedule.minute,
                               last_run, WeekdayOf(t), t % MILLIS_PER_DAY,
                               FixedZone).duration

\* one turn of the loop of Scheduler::calculate_next_runs at the instant t
CalculateNextRunAt(sm, path, job, t) ==
  LET job_state == get_job(sm.state, job.id)
      last_run == IF IsSome(job_state) THEN Unwrap(job_state).last_run ELSE None
      is_running == IsSome(job_state) /\ Unwrap(job_state).status.type = "running"
  IN IF is_running THEN sm
     ELSE UpdateJobState(sm, path, job.id,
            UpdNextRun(t + NextRunDurationAt(job.schedule, last_run, t)), t)

\* the schedules of the job: every minute, daily at 02:00, Mondays at 02:00
DueSchedules == {Interval(60), Daily(2, 0), Weekly(1, 2, 0)}

\* the instants run() computes the next runs at before the loop starts
\* (daemon.rs:93): a Monday, shortly before 02:00, at 02:00 and later
StartInstants == {Hms(1, 59, 57, 0), Hms(1, 59, 58, 500), Hms(2, 0, 0, 0),
                  Hms(3, 0, 0, 0)}

\* the last run the record holds when the daemon starts
DueLastRuns(t0) == {None, Some(t0 - 58 * MILLIS_PER_SECOND),
                    Some(t0 - 60 * MILLIS_PER_SECOND)}

\* the job with a schedule
DueJob(schedule) == [BaseJob("a") EXCEPT !.schedule = schedule]

InitDue ==
  /\ state_path = DEFAULT_STATE_FILE
  /\ \E schedule \in DueSchedules, t0 \in StartInstants :
       \E last_run \in DueLastRuns(t0) :
         LET doc == InsertNewJobs(BackupStateNew(t0), <<DueJob(schedule)>>, t0)
             ran == [doc EXCEPT !.jobs[1].last_run = last_run]
             sm == CalculateNextRunAt([state |-> ran, files |-> NoFiles],
                                      state_path, DueJob(schedule), t0)
         IN /\ config = <<DueJob(schedule)>>
            /\ state = sm.state
            /\ files = sm.files
            /\ now = t0
            /\ pure_call = [fn |-> "reload", next_tick |-> t0 + TICK_SECONDS * MILLIS_PER_SECOND,
                            reloaded |-> FALSE, ticked |-> FALSE, started |-> FALSE]
  /\ running_jobs = << >>
  /\ tasks = << >>
  /\ root_cancelled = FALSE
  /\ dpc = "running"
  /\ polls = 0
  /\ reloads = 0
  /\ loop_since_cancel = FALSE
  /\ last_reload = NoReload
  /\ callers = << >>
  /\ save_mutex = 0
  /\ failures = 0
  /\ crashed = FALSE
  /\ init_call = NoCall
  /\ target_dir = << >>
  /\ job_run = NoRun
  /\ retention_count = 0
  /\ loaded = None
  /\ watcher = NoWatcher

DueFrame ==
  UNCHANGED <<state_path, config, running_jobs, tasks, root_cancelled, dpc,
              polls, reloads, loop_since_cancel, last_reload, callVars,
              backupVars, loaded, watcher>>

\* the record of the job is Idle and its next run is not later than t
IsDue(doc, t) ==
  /\ doc.jobs[1].status = Idle
  /\ IsSome(doc.jobs[1].next_run)
  /\ Unwrap(doc.jobs[1].next_run) <= t

\* the sleep of the main loop goes on
TimePasses ==
  /\ pure_call.fn = "reload"
  /\ ~pure_call.ticked
  /\ now + MILLIS_PER_SECOND < pure_call.next_tick
  /\ now' = now + MILLIS_PER_SECOND
  /\ UNCHANGED <<state, files, pure_call>> /\ DueFrame

\* daemon.rs:119-122: a configuration change arrives in which the job is
\* as it was: handle_config_change comes to calculate_next_runs
\* (daemon.rs:396), and the select starts a new sleep
ReloadUnchanged ==
  /\ pure_call.fn = "reload"
  /\ ~pure_call.reloaded /\ ~pure_call.ticked
  /\ LET sm == CalculateNextRunAt([state |-> state, files |-> files],
                                  state_path, config[1], now)
     IN /\ state' = sm.state
        /\ files' = sm.files
  /\ pure_call' = [pure_call EXCEPT
                     !.reloaded = TRUE,
                     !.next_tick = now + TICK_SECONDS * MILLIS_PER_SECOND]
  /\ UNCHANGED now /\ DueFrame

\* daemon.rs:125-127: the sleep ends and process_jobs starts the job when
\* it is ready
TickStartsDue ==
  /\ pure_call.fn = "reload"
  /\ ~pure_call.ticked
  /\ now' = pure_call.next_tick
  /\ pure_call' = [pure_call EXCEPT
                     !.ticked = TRUE,
                     !.started = IsReady(state, config[1], pure_call.next_tick)]
  /\ UNCHANGED <<state, files>> /\ DueFrame

NextDue == TimePasses \/ ReloadUnchanged \/ TickStartsDue

SpecDue == InitDue /\ [][NextDue]_vars

\* C36 as the specification implies it: a hot-reload that leaves the job
\* as it was, handled while the job is Idle and due and not yet started,
\* leaves its next run not later than the next tick
C36_ReloadKeepsDueRun ==
  [][(pure_call.fn = "reload" /\ ~pure_call.reloaded /\ pure_call'.reloaded
        /\ IsDue(state, now))
       => IsDue(state', pure_call'.next_tick)]_vars

(***************************************************************************)
(* The state manager with job tasks that are aborted: the calls of SpecSM, *)
(* initialize_jobs with its direct write, and JoinHandle::abort of a task  *)
(* that is inside update_job_state                                         *)
(***************************************************************************)
\* the job list a hot-reload passes to initialize_jobs: one new job
ReloadedConfig == <<BaseJob("a"), BaseJob("b"), BaseJob("c")>>

\* the tasks of the daemon itself: they call save() or initialize_jobs
DaemonCallers == Callers \ (Updaters \cup {Stray})

InitAbort == InitSM /\ state_path = DEFAULT_STATE_FILE

\* engine.rs:80-91: initialize_jobs inserts the new records under the write
\* guard of StateManager::write and drops the guard
InitializeJobsWrite(c) ==
  /\ c \in DaemonCallers
  /\ CallerAt(c, "idle")
  /\ callers[c].done < OpsOf(c)
  /\ state' = InsertNewJobs(state, ReloadedConfig, 1)
  /\ callers' = [callers EXCEPT ![c].pc = "wrote"]
  /\ UNCHANGED <<files, state_path, save_mutex, failures, crashed, daemonVars, init_call, backupVars, extraVars>>

\* engine.rs:94 and manager.rs:59: initialize_jobs calls save(), which gets
\* the save mutex
InitializeJobsSave(c) ==
  /\ CallerAt(c, "wrote")
  /\ MutexLock(save_mutex, c).acquired
  /\ save_mutex' = MutexLock(save_mutex, c).mutex
  /\ callers' = [callers EXCEPT ![c].pc = "locked"]
  /\ UNCHANGED <<state, files, state_path, failures, crashed, daemonVars, init_call, backupVars, extraVars>>

\* daemon.rs:302, 335 and 441: handle.abort() on a job task that is
\* suspended in save_state_atomic, at the await of fs::write (manager.rs:81,
\* the write itself runs to its end on the blocking pool) or of the open
\* and sync_all (manager.rs:85-93). The future is dropped with its save
\* guard, and the task makes no further call.
AbortTask(c) ==
  /\ c \in Updaters
  /\ ~crashed
  /\ callers[c].pc \in {"writing", "written"}
  /\ files' = IF callers[c].pc = "writing"
              THEN [files EXCEPT ![with_extension(state_path, "tmp")] =
                                   to_json(Unwrap(callers[c].snapshot))]
              ELSE files
  /\ callers' = [callers EXCEPT ![c].pc = "aborted", ![c].done = OpsOf(c),
                                ![c].snapshot = None]
  /\ save_mutex' = MutexUnlock(save_mutex, c)
  /\ UNCHANGED <<state, state_path, failures, crashed, daemonVars, init_call, backupVars, extraVars>>

NextAbort ==
  \E c \in Callers :
    \/ SaveMutexLock(c)
    \/ WriteLockMutate(c)
    \/ ReadLockClone(c)
    \/ WriteTempBegin(c)
    \/ WriteTempEnd(c)
    \/ SyncTemp(c)
    \/ RenameTemp(c)
    \/ ReturnOk(c)
    \/ IoError(c)
    \/ InitializeJobsWrite(c)
    \/ InitializeJobsSave(c)
    \/ AbortTask(c)

SpecAbort == InitAbort /\ [][NextAbort]_vars

\* no operation of the state manager is in progress: the save mutex is
\* free and no task is inside a call or between a direct write and its save
Quiescent ==
  /\ save_mutex = 0
  /\ \A c \in Callers : callers[c].pc \in {"idle", "aborted"}

\* C37 as the specification implies it: at quiescence, when no file
\* operation has failed, the state file holds the document that is in
\* memory
C37_DiskMirrorsMemoryAtQuiescence ==
  (Quiescent /\ failures = 0) =>
    /\ ParsesOk(files[state_path])
    /\ from_json(files[state_path]) = state

(***************************************************************************)
(* The two locks of the state manager: the save mutex and the RwLock of    *)
(* the document, with the calls that take them, each call one action per   *)
(* lock it waits for and per stretch of code it runs between two waits     *)
(***************************************************************************)
\* tasks that are in a call at the same time
MaxParties == 3

Parties == 1..MaxParties

LockFunctions == {"save", "update_job_state", "initialize_jobs",
                  "calculate_next_runs", "get_ready_jobs", "reset_failed_jobs"}

\* one step of a call: a wait for a lock, or the code that runs under the
\* state guard and (drops) lets the guard go at its end, or
\* save_state_atomic with the drop of the save guard
LockStep(op) == [op |-> op, drops |-> FALSE]
Work(what) == [op |-> "work", what |-> what, drops |-> TRUE]

\* manager.rs:56-69
SaveSteps == <<LockStep("mutex"), LockStep("read"), Work("clone"), LockStep("persist")>>

\* manager.rs:104-130
UpdateJobStateSteps ==
  <<LockStep("mutex"), LockStep("write"), Work("mutate"), LockStep("persist")>>

\* an initialize_jobs without the drop(state) of engine.rs:93
InitializeJobsKeepsGuard ==
  <<LockStep("write"), [Work("mutate") EXCEPT !.drops = FALSE]>> \o SaveSteps

\* engine.rs:76-97: the write guard, the inserts, drop(state), save()
InitializeJobsSteps == <<LockStep("write"), Work("mutate")>> \o SaveSteps

\* engine.rs:19-44, one job: the read guard and its drop, update_job_state
CalculateNextRunsSteps == <<LockStep("read"), Work("look")>> \o UpdateJobStateSteps

\* engine.rs:46-75
GetReadyJobsSteps == <<LockStep("read"), Work("look")>>

\* daemon.rs:135-152, one failed job
ResetFailedJobsSteps == <<LockStep("read"), Work("look")>> \o UpdateJobStateSteps

StepsOf(fn) ==
  CASE fn = "save" -> SaveSteps
    [] fn = "update_job_state" -> UpdateJobStateSteps
    [] fn = "initialize_jobs" -> InitializeJobsSteps
    [] fn = "calculate_next_runs" -> CalculateNextRunsSteps
    [] fn = "get_ready_jobs" -> GetReadyJobsSteps
    [] fn = "reset_failed_jobs" -> ResetFailedJobsSteps

\* what the call writes to the document under the write guard
MutationOf(fn, doc) ==
  CASE fn = "update_job_state" ->
         MutateAndSnapshot(doc, "a", UpdRunning(BaseJob("a"), 1), 1).state
    [] fn = "initialize_jobs" -> InsertNewJobs(doc, ReloadedConfig, 1)
    [] fn = "calculate_next_runs" ->
         MutateAndSnapshot(doc, "a", UpdNextRun(1), 1).state
    [] fn = "reset_failed_jobs" ->
         MutateAndSnapshot(doc, "b", UpdResetIdle, 1).state
    [] OTHER -> doc

\* the document of a daemon that starts with job b Failed
LocksDoc == [InitialDoc EXCEPT !.jobs[2].status = Failed("copy failed", 0)]

InitLocks ==
  /\ state_path = DEFAULT_STATE_FILE
  /\ state = LocksDoc
  /\ files = [NoFiles EXCEPT ![state_path] = to_json(LocksDoc)]
  /\ callers \in [Parties -> {[fn |-> fn, pc |-> 1, snapshot |-> None] :
                                fn \in LockFunctions}]
  /\ save_mutex = 0
  /\ pure_call = [fn |-> "locks", readers |-> {}, writer |-> 0]
  /\ failures = 0
  /\ crashed = FALSE
  /\ init_call = NoCall
  /\ target_dir = << >>
  /\ job_run = NoRun
  /\ retention_count = 0
  /\ loaded = None
  /\ watcher = NoWatcher
  /\ now = 0
  /\ config = InitialConfig
  /\ running_jobs = << >>
  /\ tasks = << >>
  /\ root_cancelled = FALSE
  /\ dpc = "running"
  /\ polls = 0
  /\ reloads = 0
  /\ loop_since_cancel = FALSE
  /\ last_reload = NoReload

LocksFrame ==
  UNCHANGED <<state_path, failures, crashed, daemonVars, init_call,
              backupVars, loaded, watcher>>

Returned(p) == callers[p].pc > Len(StepsOf(callers[p].fn))

\* the step the party is at
StepAt(p) == StepsOf(callers[p].fn)[callers[p].pc]

AtOp(p, op) == pure_call.fn = "locks" /\ ~Returned(p) /\ StepAt(p).op = op

\* save_mutex.lock().await
AcquireSaveMutex(p) ==
  /\ AtOp(p, "mutex")
  /\ MutexLock(save_mutex, p).acquired
  /\ save_mutex' = MutexLock(save_mutex, p).mutex
  /\ callers' = [callers EXCEPT ![p].pc = @ + 1]
  /\ UNCHANGED <<state, files, pure_call>> /\ LocksFrame

\* state.read().await: granted when no task holds the write guard
AcquireRead(p) ==
  /\ AtOp(p, "read")
  /\ pure_call.writer = 0
  /\ pure_call' = [pure_call EXCEPT !.readers = @ \cup {p}]
  /\ callers' = [callers EXCEPT ![p].pc = @ + 1]
  /\ UNCHANGED <<state, files, save_mutex>> /\ LocksFrame

\* state.write().await: granted when no task holds a guard
AcquireWrite(p) ==
  /\ AtOp(p, "write")
  /\ pure_call.writer = 0 /\ pure_call.readers = {}
  /\ pure_call' = [pure_call EXCEPT !.writer = p]
  /\ callers' = [callers EXCEPT ![p].pc = @ + 1]
  /\ UNCHANGED <<state, files, save_mutex>> /\ LocksFrame

\* the code between the grant of the state guard and its drop
WorkUnderGuard(p) ==
  /\ AtOp(p, "work")
  /\ LET what == StepAt(p).what
         doc == IF what = "mutate" THEN MutationOf(callers[p].fn, state) ELSE state
     IN /\ state' = doc
        /\ callers' = [callers EXCEPT
                         ![p].pc = @ + 1,
                         ![p].snapshot = IF what = "look" THEN @ ELSE Some(doc)]
  /\ pure_call' = IF StepAt(p).drops
                  THEN [pure_call EXCEPT
                          !.readers = @ \ {p},
                          !.writer = IF @ = p THEN 0 ELSE @]
                  ELSE pure_call
  /\ UNCHANGED <<files, save_mutex>> /\ LocksFrame

\* save_state_atomic on the snapshot, then the save guard is dropped
PersistAndUnlock(p) ==
  /\ AtOp(p, "persist")
  /\ files' = [files EXCEPT ![state_path] = to_json(Unwrap(callers[p].snapshot))]
  /\ save_mutex' = MutexUnlock(save_mutex, p)
  /\ callers' = [callers EXCEPT ![p].pc = @ + 1]
  /\ UNCHANGED <<state, pure_call>> /\ LocksFrame

NextLocks ==
  \E p \in Parties :
    \/ AcquireSaveMutex(p)
    \/ AcquireRead(p)
    \/ AcquireWrite(p)
    \/ WorkUnderGuard(p)
    \/ PersistAndUnlock(p)

\* a task that can take a step is polled: the runtime leaves no ready task
\* unscheduled for ever
SpecLocks == InitLocks /\ [][NextLocks]_vars /\ WF_vars(NextLocks)

HoldsStateLock(p) == p \in pure_call.readers \/ pure_call.writer = p

WaitsForSaveMutex(p) == ~Returned(p) /\ StepAt(p).op = "mutex"

AllReturned == \A p \in Parties : Returned(p)

\* C38: no task waits for the save mutex while it holds the read or the
\* write guard of the document, and every call of every set of concurrent
\* calls returns
C38_LocksCannotDeadlock ==
  /\ [](\A p \in Parties : WaitsForSaveMutex(p) => ~HoldsStateLock(p))
  /\ <>AllReturned

\* C38 happens: one task holds the save mutex and waits for the write
\* guard, a second holds the read guard, a third waits for the save mutex
C38_Witness ==
  /\ pure_call.fn = "locks"
  /\ \E p, q, r \in Parties :
       /\ save_mutex = p /\ ~Returned(p) /\ StepAt(p).op = "write"
       /\ q \in pure_call.readers
       /\ r # p /\ WaitsForSaveMutex(r)

(***************************************************************************)
(* The select of the main loop once the root token is cancelled            *)
(***************************************************************************)
\* C39 as the specification implies it: once the root token is cancelled
\* no step of the daemon spawns a job task and none handles a
\* configuration change
C39_NothingStartedAfterCancel ==
  [][root_cancelled => (SpawnedTasks = {} /\ ~IsReloadStep)]_vars

(***************************************************************************)
(* Two jobs with one target directory that run side by side: the runs of   *)
(* execute_job step by step on the shared directory                        *)
(***************************************************************************)
\* snapshots of earlier runs in the shared target
MaxSharedPrior == 2
\* directory creations and writes into snapshot directories in one run
MaxSharedEvents == 4

\* jobs a and b, with different sources and the target of a
SharedJob(id) == [BaseJob(id) EXCEPT !.target = "tgt_a"]
SharedConfig == <<SharedJob("a"), SharedJob("b")>>

NewSharedRun == [pc |-> "spawned", backup_name |-> None]

InitShared ==
  /\ state_path = DEFAULT_STATE_FILE
  /\ state = InsertNewJobs(BackupStateNew(0), SharedConfig, 0)
  /\ files = [NoFiles EXCEPT ![DEFAULT_STATE_FILE] = to_json(state)]
  /\ \E p \in 0..MaxSharedPrior : target_dir = PriorSnapshots(p, FALSE)
  /\ retention_count \in 1..MaxRetention
  /\ callers = [id \in JobIds |-> NewSharedRun]
  /\ now = MaxSharedPrior
  /\ config = SharedConfig
  /\ job_run = NoRun
  /\ loaded = None
  /\ watcher = NoWatcher
  /\ pure_call = NoPure
  /\ init_call = NoCall
  /\ save_mutex = 0
  /\ failures = 0
  /\ crashed = FALSE
  /\ running_jobs = << >>
  /\ tasks = << >>
  /\ root_cancelled = FALSE
  /\ dpc = "running"
  /\ polls = 0
  /\ reloads = 0
  /\ loop_since_cancel = FALSE
  /\ last_reload = NoReload

SharedFrame ==
  UNCHANGED <<state_path, retention_count, config, running_jobs, tasks,
              root_cancelled, dpc, polls, reloads, loop_since_cancel,
              last_reload, save_mutex, failures, crashed, init_call, job_run,
              extraVars>>

SharedUpdate(id, u) ==
  LET sm == UpdateJobState([state |-> state, files |-> files], state_path,
                           id, u, now)
  IN /\ state' = sm.state
     /\ files' = sm.files

SharedClockRuns == now < MaxSharedPrior + MaxSharedEvents

\* executor.rs:58-65: the Running status
ShBegin(id) ==
  /\ callers[id].pc = "spawned"
  /\ SharedUpdate(id, UpdRunning(SharedJob(id), now))
  /\ callers' = [callers EXCEPT ![id].pc = "starting"]
  /\ UNCHANGED <<target_dir, now>> /\ SharedFrame

\* backup.rs:42-55: the snapshot directory is created in the target
ShCreateDir(id) ==
  /\ callers[id].pc = "starting"
  /\ SharedClockRuns
  /\ now' = now + 1
  /\ LET name == SnapshotName(SharedJob(id).source, now')
     IN /\ target_dir' = CreateSnapshotDir(target_dir, name, now')
        /\ callers' = [callers EXCEPT ![id].pc = "copying",
                                      ![id].backup_name = Some(name)]
  /\ UNCHANGED <<state, files>> /\ SharedFrame

\* backup.rs:58: the copy makes an entry in the snapshot directory, and the
\* file system moves the modification time of the directory
ShCopyWrites(id) ==
  /\ callers[id].pc = "copying"
  /\ SharedClockRuns
  /\ now' = now + 1
  /\ target_dir' = [i \in 1..Len(target_dir) |->
                      IF target_dir[i].name = Unwrap(callers[id].backup_name)
                      THEN [target_dir[i] EXCEPT !.mtime = now']
                      ELSE target_dir[i]]
  /\ UNCHANGED <<state, files, callers>> /\ SharedFrame

\* backup.rs:58 and 66-70: the copy ends well
ShCopyOk(id) ==
  /\ callers[id].pc = "copying"
  /\ Unwrap(callers[id].backup_name) \in Names(target_dir)
  /\ target_dir' = [i \in 1..Len(target_dir) |->
                      IF target_dir[i].name = Unwrap(callers[id].backup_name)
                      THEN [target_dir[i] EXCEPT !.run = "complete"]
                      ELSE target_dir[i]]
  /\ callers' = [callers EXCEPT ![id].pc = "ok"]
  /\ UNCHANGED <<state, files, now>> /\ SharedFrame

\* backup.rs:58 and 72-76: the copy finds its directory gone and fails;
\* the rename of mark_partial fails too and the run ends
ShCopyErr(id) ==
  /\ callers[id].pc = "copying"
  /\ Unwrap(callers[id].backup_name) \notin Names(target_dir)
  /\ SharedUpdate(id, UpdFailed("Failed to mark backup as partial", now))
  /\ callers' = [callers EXCEPT ![id].pc = "finished"]
  /\ UNCHANGED <<target_dir, now>> /\ SharedFrame

\* executor.rs:76-83: the success is recorded with last_backup
ShRecordSuccess(id) ==
  /\ callers[id].pc = "ok"
  /\ SharedUpdate(id, UpdSuccess(CompleteMetadata(Unwrap(callers[id].backup_name), now), now))
  /\ callers' = [callers EXCEPT ![id].pc = "cleanup"]
  /\ UNCHANGED <<target_dir, now>> /\ SharedFrame

\* executor.rs:86-96: the retention cleanup of the target of the job
ShCleanup(id) ==
  /\ callers[id].pc = "cleanup"
  /\ target_dir' = cleanup_old_backups(target_dir, retention_count)
  /\ callers' = [callers EXCEPT ![id].pc = "finished"]
  /\ UNCHANGED <<state, files, now>> /\ SharedFrame

NextShared ==
  \E id \in JobIds :
    \/ ShBegin(id)
    \/ ShCreateDir(id)
    \/ ShCopyWrites(id)
    \/ ShCopyOk(id)
    \/ ShCopyErr(id)
    \/ ShRecordSuccess(id)
    \/ ShCleanup(id)

SpecShared == InitShared /\ [][NextShared]_vars

\* the step is the retention cleanup at the end of the run of this job
IsCleanupOf(id) == callers[id].pc = "cleanup" /\ callers'[id].pc = "finished"

\* C40 as the specification implies it: with retention_count at least 1,
\* the cleanup at the end of a job removes neither a snapshot directory
\* another job is copying into nor the one just recorded as last_backup of
\* the job that ends
C40_CleanupSparesLiveSnapshots ==
  [][\A id \in JobIds :
       (IsCleanupOf(id) /\ retention_count >= 1) =>
         /\ Unwrap(Unwrap(get_job(state, id)).last_backup).backup_name
              \in Names(target_dir')
         /\ \A other \in JobIds \ {id} :
              callers[other].pc = "copying" =>
                Unwrap(callers[other].backup_name) \in Names(target_dir')]_vars

=============================================================================
